---- MODULE Spec2Model ----
(***************************************************************************)
(* A model of the synchronisation, storage and filter-matching engine of   *)
(* theinbox (src-tauri/src/lib.rs, gmail.rs, storage/mod.rs).               *)
(*                                                                         *)
(* Two groups of state:                                                    *)
(*   - the sync coordinator of lib.rs: the "syncing" set, the background   *)
(*     tasks the commands spawn, their progress channel and the events     *)
(*     they emit, the remote mailbox they read;                            *)
(*   - the SQLite store of storage/mod.rs: the emails, filters,            *)
(*     filtered_emails, sync_state and filter_sync_state_v2 tables.        *)
(***************************************************************************)
EXTENDS Integers, Sequences, FiniteSets, TLC

\* ------------------------------------------------------------- bounds ----
\* Highest remote UID the mailbox of an account ever holds.
MaxUid == 2
\* batch_size of fetch_emails_since; the call site (lib.rs:243) passes 1000,
\* the model scales it so that a fetch has several chunks.
BatchSize == 1
\* body_prefetch_limit of fetch_emails_since; the call site (lib.rs:243) passes
\* 500, the model scales it below the messages of a mailbox.
BodyLimit == 1

\* Largest chunk_size passed to refresh_filtered_emails.
MaxChunk == 2

Accounts == {"a@x.com", "b@x.com"}
\* The accounts the sync commands are invoked for.
SyncAccounts == {"a@x.com"}
\* The command invocations that can be alive at the same time.
Slots == {1, 2}
UIDs == 1..MaxUid
\* The (account, uid) of the messages the store specifications upsert.
StoreKeys == {<<"a@x.com", 1>>, <<"a@x.com", 2>>, <<"b@x.com", 1>>}

\* INBOX of an account nothing was delivered to: no message, UIDNEXT 1.
EmptyMailbox == [uids |-> {}, next |-> 1]

\* Option<u32>::None of a UID; IMAP UIDs are >= 1.
NoUid == 0

VARIABLES
    \* --- lib.rs
    syncing,            \* AppState.syncing: HashSet<String>
    task,               \* per slot: the invocation and the tasks it spawned
    queue,              \* per slot: content of the mpsc progress channel
    events,             \* per slot: stages emitted on "imap_sync_progress"
    \* --- remote mailbox (the IMAP server)
    remote,             \* per account: the UIDs in INBOX and UIDNEXT
    \* --- storage/mod.rs tables
    emails,             \* set of rows of table emails
    sync_state,         \* per account: sync_state.last_uid (no row reads as 0)
    filters,            \* sequence of rows of table filters, in rowid order
    filtered_emails,    \* set of <<email_id, filter_id>>
    filter_sync_state,  \* per account: filter_sync_state_v2.last_email_id
    filter_seq,         \* sqlite_sequence.seq of table filters (AUTOINCREMENT)
    \* --- observation of the calls made on the Storage trait
    lastCall,           \* the last storage call: its arguments and its result
    \* --- the layout of the database file
    schema              \* its tables, the type of filters.id, the columns added to emails

syncVars == <<syncing, task, queue, events, remote>>
storeVars == <<emails, sync_state, filters, filtered_emails, filter_sync_state,
               filter_seq>>
obsVars == <<lastCall, schema>>
vars == <<schema, syncing, task, queue, events, remote, emails, sync_state, filters,
          filtered_emails, filter_sync_state, filter_seq, lastCall>>

\* The layout migrate leaves: the tables of its CREATE TABLE IF NOT EXISTS
\* batch, filters.id INTEGER, and the columns it adds to emails.
BaseTables ==
    {"emails", "filters", "sync_state", "filtered_emails", "filter_sync_state",
     "filter_sync_state_v2"}
AddedColumns == {"body_html", "body_text", "date_epoch"}
CurrentSchema ==
    [tables |-> BaseTables, filters_id |-> "INTEGER", email_columns |-> AddedColumns]

\* ------------------------------------------------------------ helpers ----
Max(S) == CHOOSE x \in S : \A y \in S : y <= x
Min(S) == CHOOSE x \in S : \A y \in S : x <= y

RECURSIVE SortedSeq(_)
\* uids.sort_unstable() over a set of distinct UIDs
SortedSeq(S) == IF S = {} THEN <<>> ELSE <<Min(S)>> \o SortedSeq(S \ {Min(S)})

Take(s, n) == SubSeq(s, 1, IF n < Len(s) THEN n ELSE Len(s))
Drop(s, n) == SubSeq(s, (IF n < Len(s) THEN n ELSE Len(s)) + 1, Len(s))
Range(s) == {s[k] : k \in 1..Len(s)}

\* ------------------------------------------------- table emails (rows) ----
\* id INTEGER PRIMARY KEY: SQLite gives a new row the largest rowid + 1.
NextEmailId(tbl) == IF tbl = {} THEN 1 ELSE Max({r.id : r \in tbl}) + 1

\* SQL NULL in the columns body_html and body_text
Null == "NULL"

\* A row of table emails as INSERT makes it: the body columns are not among
\* the columns of the statement and default to NULL.
NewRow(id, account, m) ==
    [id |-> id, uid |-> m.uid, account |-> account,
     subject |-> m.subject, sender |-> m.sender, is_read |-> m.is_read,
     body_html |-> Null, body_text |-> Null]

\* The statement as it would be with ON CONFLICT(account, uid) DO NOTHING.
UpsertOne_KeepsStored(tbl, account, m) ==
    IF \E r \in tbl : r.account = account /\ r.uid = m.uid
    THEN tbl
    ELSE tbl \cup {NewRow(NextEmailId(tbl), account, m)}

\* The statement as it would be as INSERT OR REPLACE: the stored row is
\* deleted and a new row inserted.
UpsertOne_Replaces(tbl, account, m) ==
    LET others == {r \in tbl : ~(r.account = account /\ r.uid = m.uid)}
    IN others \cup {NewRow(NextEmailId(others), account, m)}

\* One execution of the INSERT ... ON CONFLICT(account, uid) DO UPDATE
UpsertOne(tbl, account, m) ==
    IF \E r \in tbl : r.account = account /\ r.uid = m.uid
    THEN {IF r.account = account /\ r.uid = m.uid
          THEN [r EXCEPT !.subject = m.subject, !.sender = m.sender,
                         !.is_read = m.is_read]
          ELSE r : r \in tbl}
    ELSE tbl \cup {NewRow(NextEmailId(tbl), account, m)}

RECURSIVE UpsertEmails(_, _, _)
\* upsert_emails: the statement once per message of the batch, one transaction
UpsertEmails(tbl, account, batch) ==
    IF batch = <<>> THEN tbl
    ELSE UpsertEmails(UpsertOne(tbl, account, Head(batch)), account, Tail(batch))

\* EmailBody { html: Option<String>, text: Option<String> } as the columns
\* take it: None is NULL.
Bodies == [html : {Null, "<p>"}, text : {Null, "t"}]

\* GmailEmailBody { uid, body }
BodyUpdates == [uid : {key[2] : key \in StoreKeys}, body : Bodies]

\* UPDATE emails SET body_html = ?1, body_text = ?2 WHERE account = ?3 AND
\* uid = ?4
SetBodyStatement(tbl, account, b) ==
    {IF r.account = account /\ r.uid = b.uid
     THEN [r EXCEPT !.body_html = b.body.html, !.body_text = b.body.text]
     ELSE r : r \in tbl}

\* Storage::set_email_bodies, committed: the statement for each body in turn.
RECURSIVE set_email_bodies(_, _, _)
set_email_bodies(tbl, account, bodies) ==
    IF bodies = <<>> THEN tbl
    ELSE set_email_bodies(SetBodyStatement(tbl, account, Head(bodies)), account,
                          Tail(bodies))

\* Storage::get_email_body: an Option as the set of its values, empty for no
\* row and for a row with neither body.
get_email_body(tbl, account, uid) ==
    {[html |-> r.body_html, text |-> r.body_text] :
        r \in {x \in tbl : /\ x.account = account /\ x.uid = uid
                           /\ (x.body_html # Null \/ x.body_text # Null)}}

StoredUids(account) == {r.uid : r \in {x \in emails : x.account = account}}

\* get_max_uid: SELECT MAX(uid) FROM emails WHERE account = ?
GetMaxUid(account) ==
    IF StoredUids(account) = {} THEN NoUid ELSE Max(StoredUids(account))

\* The message the server returns for a UID (ENVELOPE and FLAGS).
RemoteMsg(u) == [uid |-> u, subject |-> <<"a">>, sender |-> <<"b">>,
                 is_read |-> FALSE]
RemoteMsgs(us) == [k \in 1..Len(us) |-> RemoteMsg(us[k])]

\* The body the server returns for a UID (BODY.PEEK[]) as parse_email_body
\* reads it.
RemoteBody(u) == [uid |-> u, body |-> [html |-> "<p>", text |-> "t"]]
RemoteBodies(us) == [k \in 1..Len(us) |-> RemoteBody(us[k])]

\* ------------------------------------------------------- lib.rs tasks ----
IdleTask == [kind |-> "none", email |-> "", pc |-> "idle", last_uid |-> 0,
             batch_size |-> 0, body_prefetch_limit |-> 0, body_uids |-> {},
             mailbox |-> {}, fetched |-> <<>>, todo |-> <<>>, total |-> 0, processed |-> 0,
             max_uid |-> NoUid, result |-> "none", log |-> <<>>]

NewTask(kind, email, pc) == [IdleTask EXCEPT !.kind = kind, !.email = email, !.pc = pc]

\* A slot can take a new invocation when the previous one and every task it
\* spawned (the detached progress task included) have ended.
SlotFree(i) == task[i].pc \in {"idle", "skipped", "done"} /\ queue[i] = <<>>

Emit(i, stage) == events' = [events EXCEPT ![i] = Append(@, stage)]

\* The check as it would be if the syncing set were never consulted.
AlreadySyncing_Never(email) == FALSE

\* lib.rs:184 guard.contains(&email)
AlreadySyncing(email) == email \in syncing

\* gmail_sync_all_background up to its return: the check-and-set under the
\* syncing mutex and tokio::spawn.
InvokeSyncAll(i, email) ==
    /\ SlotFree(i)
    /\ IF AlreadySyncing(email)
       THEN /\ task' = [task EXCEPT ![i] = NewTask("all", email, "skipped")]
            /\ UNCHANGED syncing
       ELSE /\ syncing' = syncing \cup {email}
            /\ task' = [task EXCEPT ![i] = NewTask("all", email, "spawned")]
    /\ events' = [events EXCEPT ![i] = <<>>]
    /\ UNCHANGED <<queue, remote>>
    /\ UNCHANGED storeVars
    /\ UNCHANGED obsVars

\* The spawned task: emit "start", create the channel, spawn the progress task,
\* spawn_blocking.
TaskStart(i) ==
    /\ task[i].kind = "all" /\ task[i].pc = "spawned"
    /\ Emit(i, "start")
    /\ task' = [task EXCEPT ![i].pc = "begin"]
    /\ UNCHANGED <<syncing, queue, remote>>
    /\ UNCHANGED storeVars
    /\ UNCHANGED obsVars

\* The blocking closure, lib.rs:232-238. Every storage call can fail.
BlockingBegin(i) ==
    /\ task[i].kind = "all" /\ task[i].pc = "begin"
    /\ LET e == task[i].email IN
       \E getOk \in BOOLEAN, maxOk \in BOOLEAN, setOk \in BOOLEAN :
          IF ~getOk
          THEN /\ task' = [task EXCEPT ![i].pc = "joined", ![i].result = "err"]
               /\ UNCHANGED sync_state
          ELSE IF sync_state[e] = 0 /\ maxOk /\ GetMaxUid(e) # NoUid
          THEN /\ sync_state' = IF setOk THEN [sync_state EXCEPT ![e] = GetMaxUid(e)]
                                ELSE sync_state
               /\ task' = [task EXCEPT ![i].pc = "search",
                                       ![i].last_uid = GetMaxUid(e),
                                       ![i].batch_size = BatchSize,
                                       ![i].body_prefetch_limit = BodyLimit]
          ELSE /\ task' = [task EXCEPT ![i].pc = "search",
                                       ![i].last_uid = sync_state[e],
                                       ![i].batch_size = BatchSize,
                                       ![i].body_prefetch_limit = BodyLimit]
               /\ UNCHANGED sync_state
    /\ UNCHANGED <<syncing, queue, events, remote>>
    /\ UNCHANGED <<emails, filters, filtered_emails, filter_sync_state, filter_seq>>
    /\ UNCHANGED obsVars

\* The search as it would be if the server took n:* for the uids from n up.
SearchResult_FromNUp(mailbox, since_uid) ==
    IF since_uid > 0 THEN {u \in mailbox : u >= since_uid + 1} ELSE mailbox

\* gmail.rs:252-258: uid_search of "ALL" when since_uid = 0, else of
\* "UID since_uid+1:*". In a sequence set * is the largest uid in use and
\* n:* is the range between n and it in either order (RFC 3501, 6.4.8 and
\* seq-range): the message with the largest uid is in it also when that uid
\* is below n.
SearchResult(mailbox, since_uid) ==
    IF since_uid > 0
    THEN {u \in mailbox : u >= since_uid + 1 \/ u = Max(mailbox)}
    ELSE mailbox

\* gmail.rs:273-280: the uids whose bodies are prefetched, the last
\* min(body_prefetch_limit, total) of the sorted search result.
BodyUids(uids, body_prefetch_limit) ==
    Range(Drop(uids, Len(uids) - (IF body_prefetch_limit < Len(uids)
                                  THEN body_prefetch_limit ELSE Len(uids))))

\* fetch_emails_since up to the chunk loop, gmail.rs:241-284
Search(i) ==
    /\ task[i].kind = "all" /\ task[i].pc = "search"
    /\ LET e == task[i].email
           found == SearchResult(remote[e].uids, task[i].last_uid) IN
       \E outcome \in {"ok", "err", "panic"} :
          task' = [task EXCEPT ![i] =
             IF outcome = "err" THEN [@ EXCEPT !.pc = "joined", !.result = "err"]
             ELSE IF outcome = "panic"
             THEN [@ EXCEPT !.pc = "joined", !.result = "joinerr"]
             ELSE IF found = {}
             THEN [@ EXCEPT !.pc = "joined", !.result = "ok",
                            !.mailbox = remote[e].uids,
                            !.total = 0, !.max_uid = NoUid]
             ELSE [@ EXCEPT !.pc = "chunks",
                            !.mailbox = remote[e].uids,
                            !.todo = SortedSeq(found),
                            !.total = Cardinality(found),
                            !.body_uids = BodyUids(SortedSeq(found),
                                                   task[i].body_prefetch_limit)]]
    /\ UNCHANGED <<syncing, queue, events, remote>>
    /\ UNCHANGED storeVars
    /\ UNCHANGED obsVars

\* Whether the callback goes on after upsert_emails returned Err:
\* lib.rs:244 discards the result.
CallbackContinues(upsertOk) == TRUE

\* The body targets as they would be if the limit were applied to each chunk.
BodyTargets_PerChunk(chunk, body_uids) ==
    Drop(chunk, Len(chunk) - (IF Cardinality(body_uids) < Len(chunk)
                              THEN Cardinality(body_uids) ELSE Len(chunk)))

\* gmail.rs:369-373: the uids of the chunk whose bodies are fetched
BodyTargets(chunk, body_uids) == SelectSeq(chunk, LAMBDA u : u \in body_uids)

\* One iteration of the chunk loop (gmail.rs:286-410) with the on_chunk
\* callback of lib.rs:243-250. A failing uid_fetch or parse_email_body returns
\* Err from fetch_emails_since, and with it the max_uid it tracked is gone.
\* upsertOk, bodiesOk and setOk are the results of the callback's storage
\* calls.
ChunkStep(i, upsertOk, bodiesOk, setOk) ==
    /\ task[i].kind = "all" /\ task[i].pc = "chunks"
    /\ LET e == task[i].email
           chunk == Take(task[i].todo, task[i].batch_size)
           rest == Drop(task[i].todo, task[i].batch_size)
           body_targets == BodyTargets(chunk, task[i].body_uids)
           processed == task[i].processed + Len(chunk)
           max_uid == IF task[i].max_uid = NoUid THEN chunk[Len(chunk)]
                      ELSE Max({task[i].max_uid, chunk[Len(chunk)]})
           upserted == IF upsertOk THEN UpsertEmails(emails, e, RemoteMsgs(chunk))
                       ELSE emails
       IN
       \E outcome \in {"ok", "err", "panic"} :
          IF outcome # "ok"
          THEN /\ task' = [task EXCEPT ![i].pc = "joined", ![i].max_uid = NoUid,
                             ![i].result = IF outcome = "err" THEN "err" ELSE "joinerr"]
               /\ UNCHANGED <<emails, sync_state, queue>>
          ELSE /\ CallbackContinues(upsertOk)
               /\ emails' = IF bodiesOk
                            THEN set_email_bodies(upserted, e, RemoteBodies(body_targets))
                            ELSE upserted
               /\ sync_state' = IF setOk
                                THEN [sync_state EXCEPT ![e] = Max(Range(chunk))]
                                ELSE sync_state
               /\ queue' = [queue EXCEPT ![i] = Append(@, <<processed, task[i].total>>)]
               /\ task' = [task EXCEPT ![i] =
                    [@ EXCEPT !.todo = rest, !.processed = processed,
                              !.max_uid = max_uid,
                              !.log = Append(@, [uids |-> Range(chunk),
                                                 chunk |-> chunk,
                                                 bodies |-> Range(body_targets),
                                                 upsert_ok |-> upsertOk,
                                                 cursor_ok |-> setOk]),
                              !.pc = IF rest = <<>> THEN "joined" ELSE "chunks",
                              !.result = IF rest = <<>> THEN "ok" ELSE "none"]]
    /\ UNCHANGED <<syncing, events, remote>>
    /\ UNCHANGED <<filters, filtered_emails, filter_sync_state, filter_seq>>
    /\ UNCHANGED obsVars

\* The cursor after a failed sync as it would be if the error arms fell back
\* to the stored maximum as the success arm does.
CursorOnError_StoredMax(e) ==
    IF GetMaxUid(e) # NoUid THEN [sync_state EXCEPT ![e] = GetMaxUid(e)] ELSE sync_state

\* lib.rs:274-297: the Ok(Err) and Err arms emit "error" and write no cursor
CursorOnError(e) == sync_state

\* lib.rs:254-298: after the join, the final cursor write and the terminal event
Finish(i) ==
    /\ task[i].kind = "all" /\ task[i].pc = "joined"
    /\ LET e == task[i].email IN
       IF task[i].result = "ok"
       THEN /\ \E maxOk \in BOOLEAN, setOk \in BOOLEAN :
                 sync_state' =
                    IF task[i].max_uid # NoUid
                    THEN IF setOk THEN [sync_state EXCEPT ![e] = task[i].max_uid]
                         ELSE sync_state
                    ELSE IF maxOk /\ GetMaxUid(e) # NoUid /\ setOk
                    THEN [sync_state EXCEPT ![e] = GetMaxUid(e)]
                    ELSE sync_state
            /\ Emit(i, "complete")
       ELSE /\ Emit(i, "error")
            /\ sync_state' = CursorOnError(e)
    /\ task' = [task EXCEPT ![i].pc = "releasing"]
    /\ UNCHANGED <<syncing, queue, remote>>
    /\ UNCHANGED <<emails, filters, filtered_emails, filter_sync_state, filter_seq>>
    /\ UNCHANGED obsVars

\* Release as it would be if the marker were cleared on the success path only.
Release_OnSuccessOnly(i) ==
    /\ task[i].kind = "all" /\ task[i].pc = "releasing"
    /\ syncing' = IF task[i].result = "ok" THEN syncing \ {task[i].email} ELSE syncing
    /\ task' = [task EXCEPT ![i] = NewTask("all", task[i].email, "done")]
    /\ UNCHANGED <<queue, events, remote>>
    /\ UNCHANGED storeVars
    /\ UNCHANGED obsVars

\* lib.rs:300-301
Release(i) ==
    /\ task[i].kind = "all" /\ task[i].pc = "releasing"
    /\ syncing' = syncing \ {task[i].email}
    /\ task' = [task EXCEPT ![i] = NewTask("all", task[i].email, "done")]
    /\ UNCHANGED <<queue, events, remote>>
    /\ UNCHANGED storeVars
    /\ UNCHANGED obsVars

\* The progress task, lib.rs:205-227: one iteration of its receive loop. It is
\* detached: drop(progress_task) at lib.rs:254 drops the JoinHandle only.
ProgressEmit(i) ==
    /\ queue[i] # <<>>
    /\ Emit(i, "progress")
    /\ queue' = [queue EXCEPT ![i] = Tail(@)]
    /\ UNCHANGED <<syncing, task, remote>>
    /\ UNCHANGED storeVars
    /\ UNCHANGED obsVars

\* gmail_sync_unread_background up to its return: tokio::spawn, no check
InvokeSyncUnread(i, email) ==
    /\ SlotFree(i)
    /\ task' = [task EXCEPT ![i] = NewTask("unread", email, "spawned")]
    /\ events' = [events EXCEPT ![i] = <<>>]
    /\ UNCHANGED <<syncing, queue, remote>>
    /\ UNCHANGED storeVars
    /\ UNCHANGED obsVars

\* lib.rs:114-122
UnreadStart(i) ==
    /\ task[i].kind = "unread" /\ task[i].pc = "spawned"
    /\ Emit(i, "start")
    /\ task' = [task EXCEPT ![i].pc = "begin"]
    /\ UNCHANGED <<syncing, queue, remote>>
    /\ UNCHANGED storeVars
    /\ UNCHANGED obsVars

\* lib.rs:124-129: fetch_unread_emails, then upsert_emails; both propagate Err.
\* The UNSEEN messages are some of the mailbox's messages.
UnreadBlocking(i) ==
    /\ task[i].kind = "unread" /\ task[i].pc = "begin"
    /\ LET e == task[i].email IN
       \E outcome \in {"ok", "err", "panic"}, unseen \in SUBSET remote[e].uids :
          IF outcome = "ok"
          THEN /\ emails' = UpsertEmails(emails, e, RemoteMsgs(SortedSeq(unseen)))
               /\ task' = [task EXCEPT ![i].pc = "joined", ![i].result = "ok",
                                       ![i].total = Cardinality(unseen)]
          ELSE /\ task' = [task EXCEPT ![i].pc = "joined",
                             ![i].result = IF outcome = "err" THEN "err" ELSE "joinerr"]
               /\ UNCHANGED emails
    /\ UNCHANGED <<syncing, queue, events, remote>>
    /\ UNCHANGED <<sync_state, filters, filtered_emails, filter_sync_state, filter_seq>>
    /\ UNCHANGED obsVars

\* lib.rs:131-165
UnreadFinish(i) ==
    /\ task[i].kind = "unread" /\ task[i].pc = "joined"
    /\ Emit(i, IF task[i].result = "ok" THEN "complete" ELSE "error")
    /\ task' = [task EXCEPT ![i] = NewTask("unread", task[i].email, "done")]
    /\ UNCHANGED <<syncing, queue, remote>>
    /\ UNCHANGED storeVars
    /\ UNCHANGED obsVars

\* The server assigns the next UID to a message that arrives.
Deliver(email) ==
    /\ remote[email].next <= MaxUid
    /\ remote' = [remote EXCEPT ![email] = [uids |-> @.uids \cup {@.next},
                                            next |-> @.next + 1]]
    /\ UNCHANGED <<syncing, task, queue, events>>
    /\ UNCHANGED storeVars
    /\ UNCHANGED obsVars

\* A message leaves INBOX (deleted or archived by another client); the
\* server does not assign its UID again.
Expunge(email, u) ==
    /\ u \in remote[email].uids
    /\ remote' = [remote EXCEPT ![email].uids = @ \ {u}]
    /\ UNCHANGED <<syncing, task, queue, events>>
    /\ UNCHANGED storeVars
    /\ UNCHANGED obsVars

NoCall == [op |-> "none", account |-> "", chunk_size |-> 0, rewind |-> FALSE,
           result |-> 0, seq |-> 0]

\* AppState as set up by run() (lib.rs:405-408) over a freshly migrated store
Init ==
    /\ syncing = {}
    /\ task = [i \in Slots |-> IdleTask]
    /\ queue = [i \in Slots |-> <<>>]
    /\ events = [i \in Slots |-> <<>>]
    /\ remote = [a \in Accounts |-> EmptyMailbox]
    /\ emails = {}
    /\ sync_state = [a \in Accounts |-> 0]
    /\ filters = <<>>
    /\ filtered_emails = {}
    /\ filter_sync_state = [a \in Accounts |-> 0]
    /\ filter_seq = Len(filters)
    /\ lastCall = NoCall
    /\ schema = CurrentSchema

Next ==
    \/ \E i \in Slots, e \in SyncAccounts : InvokeSyncAll(i, e)
    \/ \E i \in Slots : TaskStart(i)
    \/ \E i \in Slots : BlockingBegin(i)
    \/ \E i \in Slots : Search(i)
    \/ \E i \in Slots, upsertOk \in BOOLEAN, bodiesOk \in BOOLEAN, setOk \in BOOLEAN :
          ChunkStep(i, upsertOk, bodiesOk, setOk)
    \/ \E i \in Slots : Finish(i)
    \/ \E i \in Slots : Release(i)
    \/ \E i \in Slots : ProgressEmit(i)
    \/ \E i \in Slots, e \in SyncAccounts : InvokeSyncUnread(i, e)
    \/ \E i \in Slots : UnreadStart(i)
    \/ \E i \in Slots : UnreadBlocking(i)
    \/ \E i \in Slots : UnreadFinish(i)
    \/ \E e \in SyncAccounts : Deliver(e)
    \/ \E e \in SyncAccounts, u \in UIDs : Expunge(e, u)

Spec == Init /\ [][Next]_vars

\* The full syncs alone, with a mailbox that takes new messages. The
\* unread-only sync shares nothing with them but the emails table, and no
\* step of a sync task waits for the mailbox.
FullSyncNext ==
    \/ \E i \in Slots, e \in SyncAccounts : InvokeSyncAll(i, e)
    \/ \E i \in Slots : TaskStart(i)
    \/ \E i \in Slots : BlockingBegin(i)
    \/ \E i \in Slots : Search(i)
    \/ \E i \in Slots, upsertOk \in BOOLEAN, bodiesOk \in BOOLEAN, setOk \in BOOLEAN :
          ChunkStep(i, upsertOk, bodiesOk, setOk)
    \/ \E i \in Slots : Finish(i)
    \/ \E i \in Slots : Release(i)
    \/ \E i \in Slots : ProgressEmit(i)
    \/ \E e \in SyncAccounts : Deliver(e)

\* The runtime schedules every spawned task and every blocking call returns.
FairSpec ==
    /\ Init /\ [][FullSyncNext]_vars
    /\ \A i \in Slots :
          /\ WF_vars(TaskStart(i)) /\ WF_vars(BlockingBegin(i)) /\ WF_vars(Search(i))
          /\ WF_vars(\E upsertOk \in BOOLEAN, bodiesOk \in BOOLEAN, setOk \in BOOLEAN :
                         ChunkStep(i, upsertOk, bodiesOk, setOk)) /\ WF_vars(Finish(i)) /\ WF_vars(Release(i))

\* ------------------------------------------------------ text matching ----
\* Texts are sequences of one-character strings over this alphabet.
\* str::to_lowercase on one character
ToLower(c) ==
    IF c = "I" THEN "i" ELSE IF c = "N" THEN "n" ELSE IF c = "P" THEN "p" ELSE c

\* str::to_lowercase
ToLowercase(t) == [k \in 1..Len(t) |-> ToLower(t[k])]

\* str::contains: needle is a contiguous part of hay (the empty needle always is)
Contains(hay, needle) ==
    \E k \in 0..(Len(hay) - Len(needle)) :
       SubSeq(hay, k + 1, k + Len(needle)) = needle

\* RegexBuilder::build on the fragment the model uses: literals, a leading ^,
\* a trailing $; an unclosed group is a syntax error.
RegexCompiles(p) == "(" \notin Range(p)

\* Regex::is_match of a case-insensitive regex of that fragment
RegexIsMatch(p, text) ==
    LET atStart == Len(p) > 0 /\ p[1] = "^"
        q == IF atStart THEN Tail(p) ELSE p
        atEnd == Len(q) > 0 /\ q[Len(q)] = "$"
        body == ToLowercase(IF atEnd THEN SubSeq(q, 1, Len(q) - 1) ELSE q)
        t == ToLowercase(text)
    IN \E k \in 0..(Len(t) - Len(body)) :
          /\ SubSeq(t, k + 1, k + Len(body)) = body
          /\ atStart => k = 0
          /\ atEnd => k + Len(body) = Len(t)

\* Option::None of a compiled regex or of a lowered pattern
None == [some |-> FALSE, value |-> <<>>]
Some(v) == [some |-> TRUE, value |-> v]

\* compile_filters: one CompiledFilter per filter, whatever its enabled flag
compile_filters(fs) ==
    [k \in 1..Len(fs) |->
        [id |-> fs[k].id,
         field |-> fs[k].field,
         regex |-> IF fs[k].is_regex /\ RegexCompiles(fs[k].pattern)
                   THEN Some(fs[k].pattern) ELSE None,
         pattern_lower |-> IF fs[k].is_regex THEN None
                           ELSE Some(ToLowercase(fs[k].pattern))]]

\* is_match as it would be if the field of the filter were ignored and every
\* filter were applied to the subject.
is_match_SubjectOnly(c, subject, sender) ==
    IF c.regex.some THEN RegexIsMatch(c.regex.value, subject)
    ELSE IF c.pattern_lower.some
    THEN Contains(ToLowercase(subject), c.pattern_lower.value)
    ELSE FALSE

\* The is_match of one iteration of the loop of match_filters
is_match(c, subject, sender) ==
    IF c.regex.some
    THEN CASE c.field = "subject" -> RegexIsMatch(c.regex.value, subject)
           [] c.field = "sender" -> RegexIsMatch(c.regex.value, sender)
           [] OTHER -> RegexIsMatch(c.regex.value, subject)
                       \/ RegexIsMatch(c.regex.value, sender)
    ELSE IF c.pattern_lower.some
    THEN CASE c.field = "subject" ->
                Contains(ToLowercase(subject), c.pattern_lower.value)
           [] c.field = "sender" ->
                Contains(ToLowercase(sender), c.pattern_lower.value)
           [] OTHER -> Contains(ToLowercase(subject), c.pattern_lower.value)
                       \/ Contains(ToLowercase(sender), c.pattern_lower.value)
    ELSE FALSE

\* match_filters: the ids of the compiled filters that match
match_filters(subject, sender, compiled) ==
    {compiled[k].id : k \in {j \in 1..Len(compiled) :
                                is_match(compiled[j], subject, sender)}}

\* ------------------------------------------------ the store on its own ----
\* Subject and sender of the messages the store specifications upsert.
Contents == {[subject |-> <<"I", "n">>, sender |-> <<"x">>],
             [subject |-> <<"h">>, sender |-> <<"P", "x">>]}

\* Rows of table filters without their id.
RuleSubstring == [name |-> "s", pattern |-> <<"i", "N">>, field |-> "subject",
                  is_regex |-> FALSE, enabled |-> TRUE]
RuleRegex == [name |-> "r", pattern |-> <<"^", "p">>, field |-> "sender",
              is_regex |-> TRUE, enabled |-> TRUE]
RuleDisabled == [name |-> "d", pattern |-> <<"x">>, field |-> "any",
                 is_regex |-> FALSE, enabled |-> FALSE]
RuleInvalid == [name |-> "i", pattern |-> <<"(">>, field |-> "any",
                is_regex |-> TRUE, enabled |-> TRUE]

\* id INTEGER PRIMARY KEY AUTOINCREMENT of table filters: 1, 2, ... in rowid order
WithIds(rules) ==
    [k \in 1..Len(rules) |->
        [id |-> k, name |-> rules[k].name, pattern |-> rules[k].pattern,
         field |-> rules[k].field, is_regex |-> rules[k].is_regex,
         enabled |-> rules[k].enabled]]

\* The contents of table filters the store specifications start from.
FilterChoices ==
    {WithIds(<<>>), WithIds(<<RuleSubstring>>), WithIds(<<RuleSubstring, RuleRegex>>),
     WithIds(<<RuleInvalid, RuleDisabled>>)}

AccountEmails(tbl, account) == {r \in tbl : r.account = account}

\* The rows of a table in id order.
SortedRows(tbl) ==
    [k \in 1..Cardinality(tbl) |->
        CHOOSE r \in tbl : r.id = SortedSeq({x.id : x \in tbl})[k]]

\* filtered_emails fe JOIN emails e ON e.id = fe.email_id WHERE e.account = ?1
FilteredOf(fe, tbl, account) ==
    {p \in fe : \E r \in AccountEmails(tbl, account) : r.id = p[1]}

\* The batch query as it would be with id >= ?2.
SelectBatch_Inclusive(tbl, account, last_id, chunk_size) ==
    LET ids == SortedSeq({r.id : r \in {x \in tbl : x.account = account /\ x.id >= last_id}})
        first == SubSeq(ids, 1, IF chunk_size < Len(ids) THEN chunk_size ELSE Len(ids))
    IN [k \in 1..Len(first) |-> CHOOSE r \in tbl : r.id = first[k]]

\* SELECT ... FROM emails WHERE account = ?1 AND id > ?2 ORDER BY id ASC LIMIT ?3
SelectBatch(tbl, account, last_id, chunk_size) ==
    LET ids == SortedSeq({r.id : r \in {x \in AccountEmails(tbl, account) :
                                           x.id > last_id}})
        first == Take(ids, chunk_size)
    IN [k \in 1..Len(first) |-> CHOOSE r \in tbl : r.id = first[k]]

\* filter_match_counts as it would be without e.account = ?1 in the join.
filter_match_counts_AnyAccount(fs, fe, tbl, account, unread_only) ==
    [k \in 1..Len(fs) |->
        <<fs[k].id,
          Cardinality({p \in fe :
             /\ p[2] = fs[k].id
             /\ \E e \in tbl : e.id = p[1] /\ (unread_only => ~e.is_read)})>>]

\* Storage::filter_match_counts over the tables fs, fe, tbl: per filter in rowid
\* order, the number of its filtered_emails rows whose message is of the account
\* (and unread, when unread_only).
filter_match_counts(fs, fe, tbl, account, unread_only) ==
    [k \in 1..Len(fs) |->
        <<fs[k].id,
          Cardinality({p \in fe :
             /\ p[2] = fs[k].id
             /\ \E e \in tbl : /\ e.id = p[1] /\ e.account = account
                               /\ (unread_only => ~e.is_read)})>>]

\* What is stored after an Err as it would be if the statements already executed
\* stayed.
Rollback_KeepsWrites(before, written) == written

\* What is stored after the transaction is dropped without commit: `?` returns
\* from the function and rusqlite rolls the transaction back.
Rollback(before, written) == before

\* The condition of the rewind as it would be if it were taken on every call.
Rewinds_Always(filtered_count, last_id) == TRUE

\* The condition of the rewind as it would be if it were never taken.
Rewinds_Never(filtered_count, last_id) == FALSE

\* storage/mod.rs:386
Rewinds(filtered_count, last_id) == filtered_count = 0 /\ last_id > 0

\* The rows INSERT OR IGNOREd for a batch, storage/mod.rs:450-457
BatchMatches(batch, compiled_filters) ==
    UNION {{<<batch[k].id, f>> :
              f \in match_filters(batch[k].subject, batch[k].sender, compiled_filters)} :
           k \in 1..Len(batch)}

\* Storage::refresh_filtered_emails. Each \E over a one-element set names a
\* local of the function. The result is -1 for Err; failAt is "none" or "tx",
\* an Err between the start of the transaction and its commit. The statements
\* before the transaction run in autocommit mode and stay.
RefreshFilteredEmails(account, chunk_size, force_full, failAt) ==
    \E cleared \in {IF force_full
                    THEN filtered_emails \ FilteredOf(filtered_emails, emails, account)
                    ELSE filtered_emails},
       stored \in {IF force_full THEN 0 ELSE filter_sync_state[account]} :
    \E rewind \in {Rewinds(Cardinality(FilteredOf(cleared, emails, account)), stored)} :
    \E last_id \in {IF rewind THEN 0 ELSE stored} :
    \E batch \in {SelectBatch(emails, account, last_id, chunk_size)},
       compiled_filters \in {compile_filters(filters)} :
    \E result \in {IF batch = <<>> THEN 0 ELSE IF failAt = "tx" THEN -1 ELSE Len(batch)} :
       /\ failAt = "tx" => batch # <<>>
       /\ filtered_emails' = IF result > 0
                             THEN cleared \cup BatchMatches(batch, compiled_filters)
                             ELSE IF result < 0
                             THEN Rollback(cleared,
                                           cleared \cup BatchMatches(batch, compiled_filters))
                             ELSE cleared
       /\ filter_sync_state' = [filter_sync_state EXCEPT ![account] =
                                  IF result > 0 THEN batch[Len(batch)].id
                                  ELSE IF result < 0
                                  THEN Rollback(last_id, batch[Len(batch)].id)
                                  ELSE last_id]
       /\ UNCHANGED schema
       /\ lastCall' = [op |-> "refresh", account |-> account,
                       chunk_size |-> chunk_size, rewind |-> rewind,
                       result |-> result, seq |-> 1 - lastCall.seq]
       /\ UNCHANGED <<emails, sync_state, filters, filter_seq>>
       /\ UNCHANGED syncVars

\* Storage::upsert_emails with one message
StoreUpsert(account, m) ==
    /\ <<account, m.uid>> \in StoreKeys
    /\ emails' = UpsertEmails(emails, account, <<m>>)
    /\ UNCHANGED schema
    /\ lastCall' = [op |-> "upsert", account |-> account, chunk_size |-> 0,
                    rewind |-> FALSE, result |-> 0,
                    seq |-> 1 - lastCall.seq]
    /\ UNCHANGED <<sync_state, filters, filtered_emails, filter_sync_state, filter_seq>>
    /\ UNCHANGED syncVars

StoreMessages ==
    {[uid |-> u, subject |-> c.subject, sender |-> c.sender, is_read |-> FALSE] :
        u \in {k[2] : k \in StoreKeys}, c \in Contents}

\* A freshly migrated store with the filters imported at start-up.
StoreInit ==
    /\ syncing = {}
    /\ task = [i \in Slots |-> IdleTask]
    /\ queue = [i \in Slots |-> <<>>]
    /\ events = [i \in Slots |-> <<>>]
    /\ remote = [a \in Accounts |-> EmptyMailbox]
    /\ emails = {}
    /\ sync_state = [a \in Accounts |-> 0]
    /\ filters \in FilterChoices
    /\ filtered_emails = {}
    /\ filter_sync_state = [a \in Accounts |-> 0]
    /\ filter_seq = Len(filters)
    /\ lastCall = NoCall
    /\ schema = CurrentSchema

StoreNext ==
    \/ \E a \in Accounts, m \in StoreMessages : StoreUpsert(a, m)
    \/ \E a \in Accounts, c \in 1..MaxChunk, f \in BOOLEAN, failAt \in {"none", "tx"} :
          RefreshFilteredEmails(a, c, f, failAt)

StoreSpec == StoreInit /\ [][StoreNext]_vars

\* The emails tables that upsert_emails builds from an empty table: ids 1..n in
\* insertion order, one row per (account, uid).
StoreTables ==
    UNION {{{[id |-> k, uid |-> key[k][2], account |-> key[k][1],
              subject |-> c[k].subject, sender |-> c[k].sender,
              is_read |-> FALSE, body_html |-> Null, body_text |-> Null] :
                k \in 1..n} :
              key \in {s \in [1..n -> StoreKeys] :
                         \A i, j \in 1..n : s[i] = s[j] => i = j},
              c \in [1..n -> Contents]} :
           n \in 0..Cardinality(StoreKeys)}

\* A store that holds messages and filters and was never backfilled.
BackfillInit ==
    /\ syncing = {}
    /\ task = [i \in Slots |-> IdleTask]
    /\ queue = [i \in Slots |-> <<>>]
    /\ events = [i \in Slots |-> <<>>]
    /\ remote = [a \in Accounts |-> EmptyMailbox]
    /\ emails \in StoreTables
    /\ sync_state = [a \in Accounts |-> 0]
    /\ filters \in FilterChoices
    /\ filtered_emails = {}
    /\ filter_sync_state = [a \in Accounts |-> 0]
    /\ filter_seq = Len(filters)
    /\ lastCall = NoCall
    /\ schema = CurrentSchema

\* One successful refresh_filtered_emails(account, chunk_size, false)
BackfillCall(a) ==
    \E c \in 1..MaxChunk : RefreshFilteredEmails(a, c, FALSE, "none")

BackfillNext == \E a \in Accounts : BackfillCall(a)

\* The caller keeps calling refresh_filtered_emails for every account.
BackfillSpec ==
    /\ BackfillInit /\ [][BackfillNext]_vars
    /\ \A a \in Accounts : WF_vars(BackfillCall(a))

\* ------------------------------------------------------- save_filters ----
\* Most rows of table filters at once, and most ids AUTOINCREMENT hands out.
MaxFilters == 2
MaxSeq == 2
\* Most save_filters calls in a behaviour.
MaxSaves == 3

\* chunk_size of the recomputation inside save_filters
RecomputeChunk == 500

\* The elements of s at the indices in idx, in the order of s.
At(s, idx) == [k \in 1..Cardinality(idx) |-> s[SortedSeq(idx)[k]]]

FilterIds(fs) == {fs[k].id : k \in 1..Len(fs)}

\* existing_map.remove(&filter.id) returns the stored filter: its id is stored
\* and no earlier element of patterns took it out of the map.
Found(fs, patterns, k) ==
    /\ patterns[k].id \in FilterIds(fs)
    /\ \A j \in 1..(k - 1) : patterns[j].id # patterns[k].id

Previous(fs, id) == fs[CHOOSE k \in 1..Len(fs) : fs[k].id = id]

\* needs_refresh as it would be if every filter found in the store were
\* recomputed.
NeedsRefresh_Always(previous, filter) == TRUE

NeedsRefresh(previous, filter) ==
    \/ previous.pattern # filter.pattern
    \/ previous.is_regex # filter.is_regex
    \/ previous.field # filter.field

\* The else-if as it would be if it compared the name only.
Touches_NameOnly(previous, filter) == previous.name # filter.name

Touches(previous, filter) ==
    previous.name # filter.name \/ previous.enabled # filter.enabled

to_update(fs, patterns) ==
    At(patterns, {k \in 1..Len(patterns) :
                     /\ Found(fs, patterns, k)
                     /\ NeedsRefresh(Previous(fs, patterns[k].id), patterns[k])})

to_touch(fs, patterns) ==
    At(patterns, {k \in 1..Len(patterns) :
                     /\ Found(fs, patterns, k)
                     /\ ~NeedsRefresh(Previous(fs, patterns[k].id), patterns[k])
                     /\ Touches(Previous(fs, patterns[k].id), patterns[k])})

to_insert(fs, patterns) ==
    At(patterns, {k \in 1..Len(patterns) : ~Found(fs, patterns, k)})

to_delete(fs, patterns) == FilterIds(fs) \ {patterns[k].id : k \in 1..Len(patterns)}

\* DELETE FROM filters WHERE id IN (...) as it would be without ON DELETE
\* CASCADE on filtered_emails.filter_id.
DeleteFilterRows_NoCascade(fe, ids) == fe

\* The filtered_emails rows left by DELETE FROM filters WHERE id IN (ids): the
\* foreign key on filter_id is ON DELETE CASCADE and foreign_keys is ON.
DeleteFilterRows(fe, ids) == {p \in fe : p[2] \notin ids}

\* save_filters as it would be without the statement that clears the rows of
\* the updated filters.
ClearFilterRows_Never(fe, ids) == fe

\* DELETE FROM filtered_emails WHERE filter_id IN (ids)
ClearFilterRows(fe, ids) == {p \in fe : p[2] \notin ids}

\* The id of an inserted row as it would be with INTEGER PRIMARY KEY alone.
NextFilterId_MaxRowid(fs, seq) == Max(FilterIds(fs) \cup {0}) + 1

\* The id of an inserted row with AUTOINCREMENT: one more than the largest id
\* the table ever held.
NextFilterId(fs, seq) == Max(FilterIds(fs) \cup {seq}) + 1

\* The inserts of to_insert in order: the table, the sequence and
\* inserted_filters after them.
RECURSIVE InsertFilters(_, _, _, _)
InsertFilters(fs, seq, inserted, todo) ==
    IF todo = <<>> THEN [filters |-> fs, seq |-> seq, inserted |-> inserted]
    ELSE LET cloned == [Head(todo) EXCEPT !.id = NextFilterId(fs, seq)]
         IN InsertFilters(Append(fs, cloned), cloned.id, Append(inserted, cloned),
                          Tail(todo))

\* UPDATE filters SET name, pattern, field, is_regex, enabled WHERE id = ?6, for
\* each filter of changed
UpdateFilters(fs, changed) ==
    [k \in 1..Len(fs) |->
        IF \E j \in 1..Len(changed) : changed[j].id = fs[k].id
        THEN changed[CHOOSE j \in 1..Len(changed) : changed[j].id = fs[k].id]
        ELSE fs[k]]

\* refresh_filter_matches_for_account from last_id on. left is the number of
\* batches that still commit before a statement fails (negative: none fails).
RECURSIVE refresh_filter_matches_for_account(_, _, _, _, _, _, _)
refresh_filter_matches_for_account(fe, tbl, account, compiled_filters, chunk_size, last_id, left) ==
    LET batch == SelectBatch(tbl, account, last_id, chunk_size)
    IN IF left = 0 THEN [rows |-> fe, left |-> 0, ok |-> FALSE]
       ELSE IF batch = <<>> THEN [rows |-> fe, left |-> left, ok |-> TRUE]
       ELSE refresh_filter_matches_for_account(
               fe \cup BatchMatches(batch, compiled_filters), tbl, account,
               compiled_filters, chunk_size, batch[Len(batch)].id, left - 1)

\* SELECT DISTINCT account FROM emails
load_filter_accounts(tbl) == {r.account : r \in tbl}

\* The loop of save_filters over the accounts, in the order the query gave them.
RECURSIVE RefreshAccounts(_, _, _, _, _)
RefreshAccounts(fe, tbl, accounts, refresh_filters, left) ==
    IF accounts = <<>> THEN [rows |-> fe, left |-> left, ok |-> TRUE]
    ELSE LET r == IF refresh_filters = <<>> THEN [rows |-> fe, left |-> left, ok |-> TRUE]
                  ELSE refresh_filter_matches_for_account(
                          fe, tbl, Head(accounts), compile_filters(refresh_filters),
                          RecomputeChunk, 0, left)
         IN IF r.ok
            THEN RefreshAccounts(r.rows, tbl, Tail(accounts), refresh_filters, r.left)
            ELSE r

\* The orders in which a query may give the accounts.
Orderings(S) ==
    {s \in [1..Cardinality(S) -> S] : \A i, j \in 1..Cardinality(S) : s[i] = s[j] => i = j}

\* Storage::save_filters. failAt is "none", "tx" (an Err between the load of
\* the stored filters and the commit of the transaction, which rolls back) or
\* "recompute" (an Err after the commit, once committed batches of the
\* recomputation were committed). The result is -1 for Err; seq counts the
\* calls.
SaveFilters(patterns, failAt, committed) ==
    /\ lastCall.seq < MaxSaves
    /\ failAt # "recompute" => committed = 0
    /\ Len(patterns) <= MaxFilters
    /\ \E upd \in {to_update(filters, patterns)},
          touch \in {to_touch(filters, patterns)},
          del \in {to_delete(filters, patterns)} :
       \E ins \in {InsertFilters(SelectSeq(filters, LAMBDA f : f.id \notin del),
                                 filter_seq, <<>>, to_insert(filters, patterns))} :
          /\ ins.seq <= MaxSeq
          /\ \/ /\ failAt = "tx"
                /\ UNCHANGED <<filters, filter_seq, filtered_emails>>
             \/ /\ failAt # "tx"
                /\ filters' = UpdateFilters(ins.filters, upd \o touch)
                /\ filter_seq' = ins.seq
                /\ \E accounts \in Orderings(load_filter_accounts(emails)) :
                   \E done \in {RefreshAccounts(
                                   ClearFilterRows(DeleteFilterRows(filtered_emails, del),
                                                   {upd[k].id : k \in 1..Len(upd)}),
                                   emails, accounts, upd \o ins.inserted,
                                   IF failAt = "recompute" THEN committed ELSE -1)} :
                      filtered_emails' = done.rows
          /\ UNCHANGED schema
          /\ lastCall' = [op |-> "save", account |-> "", chunk_size |-> 0,
                          rewind |-> FALSE,
                          result |-> IF failAt = "none" THEN 0 ELSE -1,
                          seq |-> lastCall.seq + 1]
          /\ UNCHANGED <<emails, sync_state, filter_sync_state>>
          /\ UNCHANGED syncVars

\* What the settings window sends for a stored filter it keeps: the filter as
\* it is, with enabled switched, renamed, or with another rule.
Toggled(f) == [f EXCEPT !.enabled = ~@]
Renamed(f) == [f EXCEPT !.name = "n"]
Replaced(f) ==
    LET r == IF f.pattern = RuleRegex.pattern THEN RuleSubstring ELSE RuleRegex
    IN [f EXCEPT !.pattern = r.pattern, !.field = r.field, !.is_regex = r.is_regex]
EditsOf(f) == {f, Toggled(f), Renamed(f), Replaced(f)}

\* A rule added in the settings window: it has no id yet.
NewFilter(rule) ==
    [id |-> 0, name |-> rule.name, pattern |-> rule.pattern, field |-> rule.field,
     is_regex |-> rule.is_regex, enabled |-> rule.enabled]
NewFilters == {NewFilter(RuleSubstring), NewFilter(RuleRegex)}

\* The stored filters fs as the settings window sends them back: each one
\* dropped, kept or edited, in their order.
RECURSIVE KeptFilters(_)
KeptFilters(fs) ==
    IF fs = <<>> THEN {<<>>}
    ELSE {h \o t : h \in {<<>>} \cup {<<e>> : e \in EditsOf(Head(fs))},
                   t \in KeptFilters(Tail(fs))}

\* The rule sets the settings window sends: the stored filters it keeps,
\* followed by new rules.
SaveInputs(fs) ==
    UNION {{kept \o n : n \in UNION {[1..m -> NewFilters] :
                                       m \in 0..(MaxFilters - Len(kept))}} :
           kept \in KeptFilters(fs)}

\* The messages of the store while the filters are edited.
SaveMessages ==
    UpsertEmails(
        UpsertEmails({}, "a@x.com",
            <<[uid |-> 1, subject |-> <<"I", "n">>, sender |-> <<"x">>, is_read |-> TRUE],
              [uid |-> 2, subject |-> <<"h">>, sender |-> <<"P", "x">>, is_read |-> FALSE]>>),
        "b@x.com",
        <<[uid |-> 1, subject |-> <<"I", "n">>, sender |-> <<"P", "x">>, is_read |-> FALSE]>>)

\* A store that holds messages, was never backfilled and has no filter or an
\* imported one.
SaveInit ==
    /\ syncing = {}
    /\ task = [i \in Slots |-> IdleTask]
    /\ queue = [i \in Slots |-> <<>>]
    /\ events = [i \in Slots |-> <<>>]
    /\ remote = [a \in Accounts |-> EmptyMailbox]
    /\ emails = SaveMessages
    /\ sync_state = [a \in Accounts |-> 0]
    /\ filters \in {WithIds(<<>>), WithIds(<<RuleRegex>>)}
    /\ filtered_emails = {}
    /\ filter_sync_state = [a \in Accounts |-> 0]
    /\ filter_seq = Len(filters)
    /\ lastCall = NoCall
    /\ schema = CurrentSchema

SaveNext ==
    \E p \in SaveInputs(filters), failAt \in {"none", "tx", "recompute"},
       committed \in 0..Cardinality(Accounts) : SaveFilters(p, failAt, committed)

SaveSpec == SaveInit /\ [][SaveNext]_vars

\* ------------------------------------------ upsert and the read flag ----
\* Most messages in one upsert_emails batch.
MaxBatch == 2
\* Ids per UPDATE statement of mark_emails_read and mark_emails_unread:
\* uids.chunks(200), scaled to the lists of the model.
MarkChunk == 2

\* s cut into pieces of n elements, the last one shorter: s.chunks(n)
RECURSIVE Chunks(_, _)
Chunks(s, n) == IF s = <<>> THEN <<>> ELSE <<Take(s, n)>> \o Chunks(Drop(s, n), n)

\* The UPDATE as it would be if it took the first id of the chunk only.
MarkStatement_FirstOnly(tbl, account, chunk, flag) ==
    [tbl |-> {IF r.account = account /\ r.uid = chunk[1]
              THEN [r EXCEPT !.is_read = flag] ELSE r : r \in tbl},
     updated |-> Cardinality({r \in tbl : r.account = account /\ r.uid = chunk[1]})]

\* The statement as it would be without account = ?1.
MarkStatement_AnyAccount(tbl, account, chunk, flag) ==
    [tbl |-> {IF r.uid \in Range(chunk)
              THEN [r EXCEPT !.is_read = flag] ELSE r : r \in tbl},
     updated |-> Cardinality({r \in tbl : r.uid \in Range(chunk)})]

\* UPDATE emails SET is_read = flag WHERE account = ?1 AND uid IN (chunk): the
\* table after it and what execute returns, the number of rows the WHERE
\* clause selected (SQLite counts a row it rewrote with the value it had).
MarkStatement(tbl, account, chunk, flag) ==
    [tbl |-> {IF r.account = account /\ r.uid \in Range(chunk)
              THEN [r EXCEPT !.is_read = flag] ELSE r : r \in tbl},
     updated |-> Cardinality({r \in tbl : r.account = account /\ r.uid \in Range(chunk)})]

\* The loop over the chunks from chunk k on. failAt is the number of the
\* statement that fails, one more than the number of chunks for a failing
\* commit, 0 for none. The result is -1 for Err.
RECURSIVE MarkChunks(_, _, _, _, _, _, _, _)
MarkChunks(before, tbl, account, chunks, flag, total, failAt, k) ==
    IF failAt = k THEN [tbl |-> Rollback(before, tbl), result |-> -1]
    ELSE IF k > Len(chunks) THEN [tbl |-> tbl, result |-> total]
    ELSE LET st == MarkStatement(tbl, account, chunks[k], flag)
         IN MarkChunks(before, st.tbl, account, chunks, flag, total + st.updated,
                       failAt, k + 1)

\* Storage::mark_emails_read
mark_emails_read(tbl, account, uids, failAt) ==
    IF uids = <<>> THEN [tbl |-> tbl, result |-> 0]
    ELSE MarkChunks(tbl, tbl, account, Chunks(uids, MarkChunk), TRUE, 0, failAt, 1)

\* Storage::mark_emails_unread
mark_emails_unread(tbl, account, uids, failAt) ==
    IF uids = <<>> THEN [tbl |-> tbl, result |-> 0]
    ELSE MarkChunks(tbl, tbl, account, Chunks(uids, MarkChunk), FALSE, 0, failAt, 1)

\* Storage::list_emails(account, unread_only, limit, offset) with a limit that
\* covers the account: the uids listed, without their order.
list_emails(tbl, account, unread_only) ==
    {r.uid : r \in {x \in tbl : x.account = account /\ (unread_only => ~x.is_read)}}

\* Storage::count_emails
count_emails(tbl, account, unread_only) ==
    Cardinality({r \in tbl : r.account = account /\ (unread_only => ~r.is_read)})

\* The tables upsert_emails and the mark operations build from an empty
\* table: ids 1..n in insertion order, one row per (account, uid), no body.
MailTables ==
    UNION {{{[id |-> k, uid |-> key[k][2], account |-> key[k][1],
              subject |-> c[k].subject, sender |-> c[k].sender,
              is_read |-> read[k], body_html |-> Null, body_text |-> Null] :
                k \in 1..n} :
              key \in {s \in [1..n -> StoreKeys] :
                         \A i, j \in 1..n : s[i] = s[j] => i = j},
              c \in [1..n -> Contents], read \in [1..n -> BOOLEAN]} :
           n \in 0..Cardinality(StoreKeys)}

\* The messages the server delivers for an account.
MailMessages(account) ==
    {[uid |-> key[2], subject |-> c.subject, sender |-> c.sender, is_read |-> read] :
        key \in {k \in StoreKeys : k[1] = account}, c \in Contents, read \in BOOLEAN}

MailBatches(account) == UNION {[1..n -> MailMessages(account)] : n \in 1..MaxBatch}

\* The uid lists handed to the mark operations: stored and other uids, with
\* repetitions, up to one more than a chunk.
UidLists == UNION {[1..n -> {key[2] : key \in StoreKeys}] : n \in 0..(MarkChunk + 1)}

\* One call of upsert_emails on a store that took no call yet; ok is whether
\* the transaction committed.
MailUpsert(account, batch, ok) ==
    /\ lastCall.op = "none"
    /\ emails' = IF ok THEN UpsertEmails(emails, account, batch) ELSE emails
    /\ UNCHANGED schema
    /\ lastCall' = [op |-> "upsert", account |-> account, chunk_size |-> 0,
                    rewind |-> FALSE, result |-> IF ok THEN 0 ELSE -1, seq |-> 1]
    /\ UNCHANGED <<sync_state, filters, filtered_emails, filter_sync_state, filter_seq>>
    /\ UNCHANGED syncVars

\* One call of mark_emails_read
MarkRead(account, uids, failAt) ==
    /\ lastCall.op = "none"
    /\ uids = <<>> => failAt = 0
    /\ \E r \in {mark_emails_read(emails, account, uids, failAt)} :
          /\ emails' = r.tbl
          /\ UNCHANGED schema
          /\ lastCall' = [op |-> "mark_read", account |-> account, chunk_size |-> 0,
                          rewind |-> FALSE, result |-> r.result, seq |-> 1]
    /\ UNCHANGED <<sync_state, filters, filtered_emails, filter_sync_state, filter_seq>>
    /\ UNCHANGED syncVars

\* One call of mark_emails_unread
MarkUnread(account, uids, failAt) ==
    /\ lastCall.op = "none"
    /\ uids = <<>> => failAt = 0
    /\ \E r \in {mark_emails_unread(emails, account, uids, failAt)} :
          /\ emails' = r.tbl
          /\ UNCHANGED schema
          /\ lastCall' = [op |-> "mark_unread", account |-> account, chunk_size |-> 0,
                          rewind |-> FALSE, result |-> r.result, seq |-> 1]
    /\ UNCHANGED <<sync_state, filters, filtered_emails, filter_sync_state, filter_seq>>
    /\ UNCHANGED syncVars

\* A store in any state the three operations reach.
MailInit ==
    /\ syncing = {}
    /\ task = [i \in Slots |-> IdleTask]
    /\ queue = [i \in Slots |-> <<>>]
    /\ events = [i \in Slots |-> <<>>]
    /\ remote = [a \in Accounts |-> EmptyMailbox]
    /\ emails \in MailTables
    /\ sync_state = [a \in Accounts |-> 0]
    /\ filters = <<>>
    /\ filtered_emails = {}
    /\ filter_sync_state = [a \in Accounts |-> 0]
    /\ filter_seq = Len(filters)
    /\ lastCall = NoCall
    /\ schema = CurrentSchema

\* The statements a mark call over uids can fail at: one per chunk, and the
\* commit.
FailPoints(uids) == 0..(Len(Chunks(uids, MarkChunk)) + 1)

MailNext ==
    \/ \E a \in Accounts : \E batch \in MailBatches(a), ok \in BOOLEAN : MailUpsert(a, batch, ok)
    \/ \E a \in Accounts, uids \in UidLists : \E failAt \in FailPoints(uids) :
          MarkRead(a, uids, failAt)
    \/ \E a \in Accounts, uids \in UidLists : \E failAt \in FailPoints(uids) :
          MarkUnread(a, uids, failAt)

MailSpec == MailInit /\ [][MailNext]_vars

\* ------------------------------------------------------ cached bodies ----
\* The lists of bodies handed to set_email_bodies.
BodyLists == UNION {[1..n -> BodyUpdates] : n \in 0..MaxBatch}

\* One call of set_email_bodies; ok is whether the transaction committed (an
\* empty list returns Ok before it starts one).
SetEmailBodies(account, bodies, ok) ==
    /\ lastCall.op = "none"
    /\ bodies = <<>> => ok
    /\ emails' = IF ok THEN set_email_bodies(emails, account, bodies)
                 ELSE Rollback(emails, emails)
    /\ UNCHANGED schema
    /\ lastCall' = [op |-> "set_bodies", account |-> account, chunk_size |-> 0,
                    rewind |-> FALSE, result |-> IF ok THEN 0 ELSE -1, seq |-> 1]
    /\ UNCHANGED <<sync_state, filters, filtered_emails, filter_sync_state, filter_seq>>
    /\ UNCHANGED syncVars

\* The message stored under a key before the call.
StoredMessage(key) ==
    [uid |-> key[2], subject |-> <<"h">>, sender |-> <<"P", "x">>, is_read |-> FALSE]

\* The tables upsert_emails and set_email_bodies build from an empty table,
\* with one content per message.
BodyTables ==
    UNION {{{[NewRow(k, key[k][1], StoredMessage(key[k])) EXCEPT
                 !.body_html = b[k].html, !.body_text = b[k].text] : k \in 1..n} :
              key \in {s \in [1..n -> StoreKeys] :
                         \A i, j \in 1..n : s[i] = s[j] => i = j},
              b \in [1..n -> Bodies]} :
           n \in 0..Cardinality(StoreKeys)}

BodyInit ==
    /\ syncing = {}
    /\ task = [i \in Slots |-> IdleTask]
    /\ queue = [i \in Slots |-> <<>>]
    /\ events = [i \in Slots |-> <<>>]
    /\ remote = [a \in Accounts |-> EmptyMailbox]
    /\ emails \in BodyTables
    /\ sync_state = [a \in Accounts |-> 0]
    /\ filters = <<>>
    /\ filtered_emails = {}
    /\ filter_sync_state = [a \in Accounts |-> 0]
    /\ filter_seq = Len(filters)
    /\ lastCall = NoCall
    /\ schema = CurrentSchema

\* Every operation of the store that writes table emails.
BodyNext ==
    \/ \E a \in Accounts : \E batch \in MailBatches(a), ok \in BOOLEAN : MailUpsert(a, batch, ok)
    \/ \E a \in Accounts, uids \in UidLists : \E failAt \in FailPoints(uids) :
          MarkRead(a, uids, failAt)
    \/ \E a \in Accounts, uids \in UidLists : \E failAt \in FailPoints(uids) :
          MarkUnread(a, uids, failAt)
    \/ \E a \in Accounts, bodies \in BodyLists, ok \in BOOLEAN : SetEmailBodies(a, bodies, ok)

BodySpec == BodyInit /\ [][BodyNext]_vars

\* ------------------------------------------- fetch_emails_since alone ----
\* Highest UID of the mailboxes one call of fetch_emails_since is run on; the
\* since_uid, batch_size and body_prefetch_limit of the call range up to it.
FetchUids == 3

FetchMailboxes == [uids : SUBSET (1..FetchUids), next : {FetchUids + 1}]

\* fetch_emails_since(email, since_uid, batch_size, body_prefetch_limit,
\* on_chunk) about to search; chunks(0) panics, so batch_size >= 1.
FetchCall(since_uid, batch_size, body_prefetch_limit) ==
    [NewTask("all", "a@x.com", "search") EXCEPT
        !.last_uid = since_uid, !.batch_size = batch_size,
        !.body_prefetch_limit = body_prefetch_limit]

FetchInit ==
    /\ syncing = {"a@x.com"}
    /\ \E since_uid \in 0..FetchUids, batch_size \in 1..FetchUids,
          body_prefetch_limit \in 0..FetchUids :
          /\ task = [i \in Slots |-> IF i = 1
                                     THEN FetchCall(since_uid, batch_size,
                                                    body_prefetch_limit)
                                     ELSE IdleTask]
          /\ sync_state = [a \in Accounts |-> IF a = "a@x.com" THEN since_uid ELSE 0]
    /\ queue = [i \in Slots |-> <<>>]
    /\ events = [i \in Slots |-> IF i = 1 THEN <<"start">> ELSE <<>>]
    /\ \E mailbox \in FetchMailboxes :
          remote = [a \in Accounts |-> IF a = "a@x.com" THEN mailbox ELSE EmptyMailbox]
    /\ emails = {}
    /\ filters = <<>>
    /\ filtered_emails = {}
    /\ filter_sync_state = [a \in Accounts |-> 0]
    /\ filter_seq = Len(filters)
    /\ lastCall = NoCall
    /\ schema = CurrentSchema

\* The call with a callback whose storage calls succeed.
FetchNext ==
    \/ Search(1)
    \/ ChunkStep(1, TRUE, TRUE, TRUE)

FetchSpec == FetchInit /\ [][FetchNext]_vars

\* --------------------------------------------- one call, two accounts ----
\* Storage::set_last_uid; ok is whether the statement succeeded.
SetLastUid(account, last_uid, ok) ==
    /\ lastCall.op = "none"
    /\ sync_state' = IF ok THEN [sync_state EXCEPT ![account] = last_uid] ELSE sync_state
    /\ UNCHANGED schema
    /\ lastCall' = [op |-> "set_last_uid", account |-> account, chunk_size |-> 0,
                    rewind |-> FALSE, result |-> IF ok THEN 0 ELSE -1, seq |-> 1]
    /\ UNCHANGED <<emails, filters, filtered_emails, filter_sync_state, filter_seq>>
    /\ UNCHANGED syncVars

\* One call of refresh_filtered_emails on a store that took no call yet.
RefreshOnce(account, chunk_size, force_full, failAt) ==
    /\ lastCall.op = "none"
    /\ RefreshFilteredEmails(account, chunk_size, force_full, failAt)

\* The highest id among the rows of an account, 0 without rows.
MaxEmailId(tbl, account) ==
    IF AccountEmails(tbl, account) = {} THEN 0
    ELSE Max({r.id : r \in AccountEmails(tbl, account)})

\* A store after syncs and a backfill that caught up for both accounts: the
\* messages with or without cached bodies, the sync cursors at the highest
\* stored uid, the filter cursors at the highest id and a filtered_emails row
\* for every match.
AccountsInit ==
    /\ syncing = {}
    /\ task = [i \in Slots |-> IdleTask]
    /\ queue = [i \in Slots |-> <<>>]
    /\ events = [i \in Slots |-> <<>>]
    /\ remote = [a \in Accounts |-> EmptyMailbox]
    /\ emails \in BodyTables
    /\ sync_state = [a \in Accounts |-> GetMaxUid(a)]
    /\ filters \in FilterChoices
    /\ filtered_emails = BatchMatches(SortedRows(emails), compile_filters(filters))
    /\ filter_sync_state = [a \in Accounts |-> MaxEmailId(emails, a)]
    /\ filter_seq = Len(filters)
    /\ lastCall = NoCall
    /\ schema = CurrentSchema

\* Every operation of the store that takes an account and writes.
AccountsNext ==
    \/ \E a \in Accounts : \E batch \in MailBatches(a), ok \in BOOLEAN : MailUpsert(a, batch, ok)
    \/ \E a \in Accounts, uids \in UidLists : \E failAt \in FailPoints(uids) :
          MarkRead(a, uids, failAt)
    \/ \E a \in Accounts, uids \in UidLists : \E failAt \in FailPoints(uids) :
          MarkUnread(a, uids, failAt)
    \/ \E a \in Accounts, bodies \in BodyLists, ok \in BOOLEAN : SetEmailBodies(a, bodies, ok)
    \/ \E a \in Accounts, u \in 0..MaxUid, ok \in BOOLEAN : SetLastUid(a, u, ok)
    \/ \E a \in Accounts, c \in 1..MaxChunk, f \in BOOLEAN, failAt \in {"none", "tx"} :
          RefreshOnce(a, c, f, failAt)

AccountsSpec == AccountsInit /\ [][AccountsNext]_vars

\* ------------------------------------------------------- list_emails order ----
\* The Date headers the mailbox can deliver, by what parse_from_rfc2822 makes
\* of them: whether the header parses and, when it does, its timestamp; -1 is
\* a date before 1970 (RFC 2822 years start at 1900).
MaxEpoch == 2
Timestamps == -1..MaxEpoch
Dates ==
    {[parses |-> FALSE, timestamp |-> 0]}
       \cup {[parses |-> TRUE, timestamp |-> t] : t \in Timestamps}

\* gmail.rs parse_imap_date_epoch: Option<i64>, a set with no or one element.
parse_imap_date_epoch(date) == IF date.parses THEN {date.timestamp} ELSE {}

\* The column date_epoch of a row, a set with no element for NULL: a sync
\* stores parse_imap_date_epoch(..).unwrap_or(0); a row of the layout without
\* the column gets NULL from ALTER TABLE and backfill_date_epoch writes the
\* timestamp only when the header parses.
UpsertedEpoch(date) ==
    IF parse_imap_date_epoch(date) = {} THEN {0} ELSE parse_imap_date_epoch(date)
BackfilledEpoch(date) == parse_imap_date_epoch(date)
StoredEpochs == {UpsertedEpoch(d) : d \in Dates} \cup {BackfilledEpoch(d) : d \in Dates}

\* IFNULL(date_epoch, 0)
IfNull(epoch, default) == IF epoch = {} THEN default ELSE CHOOSE t \in epoch : TRUE

\* SQLite's comparison of two values of the column: NULL is below every number.
EpochBelow(e1, e2) ==
    /\ e2 # {}
    /\ e1 = {} \/ IfNull(e1, 0) < IfNull(e2, 0)

\* The uids list_emails can hold per account, and the tables of dated rows.
ListUids == 3
DatedTablesOf(account) ==
    UNION {{{[uid |-> u, account |-> account, is_read |-> f[u].is_read,
              date_epoch |-> f[u].date_epoch] : u \in U} :
              f \in [U -> [is_read : BOOLEAN, date_epoch : StoredEpochs]]} :
           U \in SUBSET (1..ListUids)}
DatedTables ==
    {t \cup o : t \in DatedTablesOf("a@x.com"),
                o \in {{}, {[uid |-> 1, account |-> "b@x.com", is_read |-> FALSE,
                             date_epoch |-> {1}]}}}

\* ORDER BY date_epoch DESC over a set of rows: every arrangement in which no
\* row stands before a row with a higher date_epoch (SQLite leaves the order
\* of equal keys open).
OrderByDateEpochDesc(rows) ==
    {s \in [1..Cardinality(rows) -> rows] :
        /\ \A i, j \in 1..Cardinality(rows) : i # j => s[i] # s[j]
        /\ \A i, j \in 1..Cardinality(rows) :
              i < j => ~EpochBelow(s[i].date_epoch, s[j].date_epoch)}

\* Storage::list_emails(account, unread_only, limit, offset): the Vec of
\* StoredEmail (uid, date_epoch, is_read of each) it can return.
list_emails_page(tbl, account, unread_only, limit, offset) ==
    {[k \in 1..Len(Take(Drop(s, offset), limit)) |->
         [uid |-> Take(Drop(s, offset), limit)[k].uid,
          date_epoch |-> IfNull(Take(Drop(s, offset), limit)[k].date_epoch, 0),
          is_read |-> Take(Drop(s, offset), limit)[k].is_read]] :
       s \in OrderByDateEpochDesc(
               {r \in tbl : r.account = account /\ (unread_only => ~r.is_read)})}

ListEmails(account, unread_only, limit, offset) ==
    /\ lastCall.op = "none"
    /\ \E page \in list_emails_page(emails, account, unread_only, limit, offset) :
          lastCall' = [op |-> "list_emails", account |-> account,
                       unread_only |-> unread_only, limit |-> limit,
                       offset |-> offset, result |-> page]
    /\ UNCHANGED <<emails, sync_state, filters, filtered_emails, filter_sync_state,
                   filter_seq, schema>>
    /\ UNCHANGED syncVars

ListInit ==
    /\ syncing = {}
    /\ task = [i \in Slots |-> IdleTask]
    /\ queue = [i \in Slots |-> <<>>]
    /\ events = [i \in Slots |-> <<>>]
    /\ remote = [a \in Accounts |-> EmptyMailbox]
    /\ emails \in DatedTables
    /\ sync_state = [a \in Accounts |-> 0]
    /\ filters = <<>>
    /\ filtered_emails = {}
    /\ filter_sync_state = [a \in Accounts |-> 0]
    /\ filter_seq = 0
    /\ lastCall = NoCall
    /\ schema = CurrentSchema

ListNext ==
    \E a \in Accounts, unread_only \in BOOLEAN, limit \in 0..ListUids,
       offset \in 0..ListUids : ListEmails(a, unread_only, limit, offset)

ListSpec == ListInit /\ [][ListNext]_vars

\* ----------------------------------------------------------------- migrate ----
\* The database file as migrate sees it: the layout and the tables it rewrites.
\* A row of emails is here its id, its Date header and its date_epoch (no
\* element: NULL, or no such column); a filter of the layout with text ids has
\* a string as id, and so has filter_id of its filtered_emails rows.
DiskOf(sch, tbl, flt, fe, seq) ==
    [schema |-> sch, emails |-> tbl, filters |-> flt, filtered_emails |-> fe,
     filter_seq |-> seq]

\* execute_batch("BEGIN; CREATE TABLE IF NOT EXISTS ...; COMMIT;"): a missing
\* emails table is created with date_epoch and without the body columns, a
\* missing filters table with id INTEGER.
CreateBaseTables(disk) ==
    [disk EXCEPT !.schema =
        [tables |-> BaseTables,
         filters_id |-> IF "filters" \in disk.schema.tables
                        THEN disk.schema.filters_id ELSE "INTEGER",
         email_columns |-> IF "emails" \in disk.schema.tables
                           THEN disk.schema.email_columns ELSE {"date_epoch"}]]

\* id_map of migrate_filters_to_integer_ids: filters_v2 is new, so the k-th
\* filter in rowid order gets last_insert_rowid() = k; a later insert of the
\* same key replaces the entry.
IdMap_AllFirst(old) == [id \in {old[k].id : k \in 1..Len(old)} |-> 1]
IdMap(old) ==
    [id \in {old[k].id : k \in 1..Len(old)} |->
        Max({k \in 1..Len(old) : old[k].id = id})]

\* migrate_filters_to_integer_ids: nothing when filters.id is an integer
\* column; else the filters copied in rowid order under their new ids, the
\* filtered_emails rows whose filter_id is in id_map copied under the new id,
\* the old tables dropped and the new ones renamed.
migrate_filters_to_integer_ids(disk) ==
    IF disk.schema.filters_id = "INTEGER" THEN disk
    ELSE [disk EXCEPT
            !.schema = [disk.schema EXCEPT !.filters_id = "INTEGER"],
            !.filters = [k \in 1..Len(disk.filters) |->
                            [disk.filters[k] EXCEPT !.id = k]],
            !.filtered_emails =
                {<<r[1], IdMap(disk.filters)[r[2]]>> :
                    r \in {x \in disk.filtered_emails :
                              x[2] \in DOMAIN IdMap(disk.filters)}},
            !.filter_seq = Len(disk.filters)]

\* ensure_column(conn, "emails", column, ..): ALTER TABLE ADD COLUMN unless
\* the column is there; the rows read NULL in it.
ensure_column(disk, column) ==
    [disk EXCEPT !.schema = [disk.schema EXCEPT !.email_columns = @ \cup {column}]]

\* backfill_date_epoch: the rows with date_epoch 0 or NULL whose Date header
\* parses get its timestamp.
backfill_date_epoch(disk) ==
    [disk EXCEPT !.emails =
        {IF r.date_epoch \in {{}, {0}} /\ parse_imap_date_epoch(r.date) # {}
         THEN [r EXCEPT !.date_epoch = BackfilledEpoch(r.date)] ELSE r :
           r \in disk.emails}]

\* The steps of migrate in the order of its body.
MigrateSteps == <<"base", "filters", "body_html", "body_text", "date_epoch", "backfill">>

ApplyStep(disk, step) ==
    IF step = "base" THEN CreateBaseTables(disk)
    ELSE IF step = "filters" THEN migrate_filters_to_integer_ids(disk)
    ELSE IF step = "backfill" THEN backfill_date_epoch(disk)
    ELSE ensure_column(disk, step)

\* migrate from step k on. failAt is the step that fails ("none": no step
\* does): a step runs in a transaction of its own, or is one statement, so
\* its failure leaves the file as the steps before it left it, and the ? ends
\* migrate with Err (result -1).
RECURSIVE MigrateFrom(_, _, _)
MigrateFrom(disk, k, failAt) ==
    IF k > Len(MigrateSteps) THEN [disk |-> disk, result |-> 0]
    ELSE IF failAt = MigrateSteps[k]
         THEN [disk |-> Rollback(disk, ApplyStep(disk, MigrateSteps[k])), result |-> -1]
         ELSE MigrateFrom(ApplyStep(disk, MigrateSteps[k]), k + 1, failAt)

migrate(disk, failAt) == MigrateFrom(disk, 1, failAt)

\* SqliteStorage::new on the file: migrate runs, and the file is what it left.
\* rewrote tells whether this call rewrote the filter ids.
Open(failAt) ==
    /\ \E m \in {migrate(DiskOf(schema, emails, filters, filtered_emails, filter_seq),
                         failAt)} :
          /\ schema' = m.disk.schema
          /\ emails' = m.disk.emails
          /\ filters' = m.disk.filters
          /\ filtered_emails' = m.disk.filtered_emails
          /\ filter_seq' = m.disk.filter_seq
          /\ lastCall' = [op |-> "open", account |-> "", chunk_size |-> 0,
                          rewind |-> FALSE, result |-> m.result, seq |-> 0,
                          rewrote |-> schema.filters_id # m.disk.schema.filters_id]
    /\ UNCHANGED <<sync_state, filter_sync_state>>
    /\ UNCHANGED syncVars

\* The layouts a file can have: no table yet, the tables of a version before
\* filter_sync_state_v2, or all tables; filters.id TEXT or INTEGER; any of the
\* added columns.
LegacyTables == {"emails", "filters", "sync_state", "filtered_emails"}
Schemas ==
    {[tables |-> {}, filters_id |-> "INTEGER", email_columns |-> {}]}
       \cup [tables : {LegacyTables, BaseTables}, filters_id : {"TEXT", "INTEGER"},
             email_columns : SUBSET AddedColumns]

\* The text ids of the older layout and the filters it can hold, in rowid
\* order; the filters of the layout with integer ids.
LegacyIds == {"x", "y"}
MigrateRules == <<RuleSubstring, RuleRegex>>
LegacyFilters ==
    {[k \in 1..Len(ids) |->
         [id |-> ids[k], name |-> MigrateRules[k].name,
          pattern |-> MigrateRules[k].pattern, field |-> MigrateRules[k].field,
          is_regex |-> MigrateRules[k].is_regex, enabled |-> MigrateRules[k].enabled]] :
       ids \in {s \in UNION {[1..n -> LegacyIds] : n \in 0..Len(MigrateRules)} :
                   \A i, j \in 1..Len(s) : i # j => s[i] # s[j]}}
IntegerFilters == {WithIds(SubSeq(MigrateRules, 1, n)) : n \in 0..Len(MigrateRules)}

\* The rows of emails of a file: ids 1..n, a Date header each, and a
\* date_epoch when the layout has the column.
MaxRows == 2
MigrateDates == {d \in Dates : d.timestamp \in {0, MaxEpoch}}
MigrateEmails(columns) ==
    UNION {{{[id |-> k, date |-> d[k], date_epoch |-> e[k]] : k \in 1..n} :
              d \in [1..n -> MigrateDates],
              e \in [1..n -> IF "date_epoch" \in columns THEN {{}, {0}, {MaxEpoch}}
                                                       ELSE {{}}]} :
           n \in 0..MaxRows}

MigrateInit ==
    /\ syncing = {}
    /\ task = [i \in Slots |-> IdleTask]
    /\ queue = [i \in Slots |-> <<>>]
    /\ events = [i \in Slots |-> <<>>]
    /\ remote = [a \in Accounts |-> EmptyMailbox]
    /\ sync_state = [a \in Accounts |-> 0]
    /\ filter_sync_state = [a \in Accounts |-> 0]
    /\ lastCall = NoCall
    /\ schema \in Schemas
    /\ emails \in IF "emails" \in schema.tables
                  THEN MigrateEmails(schema.email_columns) ELSE {{}}
    /\ filters \in IF "filters" \notin schema.tables THEN {<<>>}
                   ELSE IF schema.filters_id = "TEXT" THEN LegacyFilters
                   ELSE IntegerFilters
    /\ filtered_emails \in
          IF "filters" \notin schema.tables THEN {{}}
          ELSE SUBSET ({r.id : r \in emails}
                          \X (IF schema.filters_id = "TEXT" THEN LegacyIds
                              ELSE 1..Len(MigrateRules)))
    /\ filter_seq = IF schema.filters_id = "TEXT" THEN 0 ELSE Len(filters)

MigrateNext ==
    \E failAt \in {"none"} \cup {MigrateSteps[k] : k \in 1..Len(MigrateSteps)} :
       Open(failAt)

MigrateSpec == MigrateInit /\ [][MigrateNext]_vars

\* ------------------------------------------- mark as read during a sync ----
\* uid_fetch of a chunk (gmail.rs:292-366): ENVELOPE and FLAGS of each uid,
\* is_read from \Seen as the mailbox has it at the fetch.
FetchedMsgs(mailbox, chunk) ==
    [k \in 1..Len(chunk) |-> [RemoteMsg(chunk[k]) EXCEPT !.is_read = chunk[k] \in mailbox.seen]]

\* The first half of an iteration of the chunk loop: the fetch from the
\* server, which takes no storage lock. A failing fetch returns Err from
\* fetch_emails_since.
FetchChunk(i) ==
    /\ task[i].kind = "all" /\ task[i].pc = "chunks"
    /\ \E outcome \in {"ok", "err", "panic"} :
          task' = [task EXCEPT ![i] =
             IF outcome = "ok"
             THEN [@ EXCEPT !.pc = "callback",
                            !.fetched = FetchedMsgs(remote[task[i].email],
                                                    Take(task[i].todo, task[i].batch_size))]
             ELSE [@ EXCEPT !.pc = "joined", !.max_uid = NoUid,
                            !.result = IF outcome = "err" THEN "err" ELSE "joinerr"]]
    /\ UNCHANGED <<syncing, queue, events, remote>>
    /\ UNCHANGED storeVars
    /\ UNCHANGED obsVars

\* The second half: on_chunk (lib.rs:243-250) stores what was fetched.
ChunkCallback(i, upsertOk, bodiesOk, setOk) ==
    /\ task[i].kind = "all" /\ task[i].pc = "callback"
    /\ LET e == task[i].email
           chunk == Take(task[i].todo, task[i].batch_size)
           rest == Drop(task[i].todo, task[i].batch_size)
           body_targets == BodyTargets(chunk, task[i].body_uids)
           processed == task[i].processed + Len(chunk)
           max_uid == IF task[i].max_uid = NoUid THEN chunk[Len(chunk)]
                      ELSE Max({task[i].max_uid, chunk[Len(chunk)]})
           upserted == IF upsertOk THEN UpsertEmails(emails, e, task[i].fetched)
                       ELSE emails
       IN
       /\ CallbackContinues(upsertOk)
       /\ emails' = IF bodiesOk
                    THEN set_email_bodies(upserted, e, RemoteBodies(body_targets))
                    ELSE upserted
       /\ sync_state' = IF setOk
                        THEN [sync_state EXCEPT ![e] = Max(Range(chunk))]
                        ELSE sync_state
       /\ queue' = [queue EXCEPT ![i] = Append(@, <<processed, task[i].total>>)]
       /\ task' = [task EXCEPT ![i] =
            [@ EXCEPT !.todo = rest, !.processed = processed,
                      !.max_uid = max_uid, !.fetched = <<>>,
                      !.log = Append(@, [uids |-> Range(chunk),
                                         chunk |-> chunk,
                                         bodies |-> Range(body_targets),
                                         upsert_ok |-> upsertOk,
                                         cursor_ok |-> setOk]),
                      !.pc = IF rest = <<>> THEN "joined" ELSE "chunks",
                      !.result = IF rest = <<>> THEN "ok" ELSE "none"]]
    /\ UNCHANGED <<syncing, events, remote>>
    /\ UNCHANGED <<filters, filtered_emails, filter_sync_state, filter_seq>>
    /\ UNCHANGED obsVars

\* The syncs that hold fetched flags of one of the uids and have not stored
\* them yet.
HoldingFlags(account, uids) ==
    {i \in Slots :
        /\ task[i].kind = "all" /\ task[i].email = account /\ task[i].pc = "callback"
        /\ \E k \in 1..Len(task[i].fetched) : task[i].fetched[k].uid \in Range(uids)}

\* gmail_mark_as_read (lib.rs:88-102): STORE +FLAGS (\Seen) on the server,
\* then mark_emails_read; an Err of the first skips the second. uids are the
\* uids of the call that the store holds, stale the syncs that hold flags
\* fetched before this call.
MarkAsRead(account, uids, remoteOk, failAt) ==
    /\ lastCall.op = "none"
    /\ uids # <<>>
    /\ \E r \in {mark_emails_read(emails, account, uids, failAt)} :
          /\ remote' = IF remoteOk
                       THEN [remote EXCEPT ![account].seen =
                                @ \cup (Range(uids) \cap remote[account].uids)]
                       ELSE remote
          /\ emails' = IF remoteOk THEN r.tbl ELSE emails
          /\ UNCHANGED schema
          /\ lastCall' = [op |-> "mark_as_read", account |-> account, chunk_size |-> 0,
                          rewind |-> FALSE,
                          result |-> IF remoteOk /\ r.result >= 0 THEN Len(uids) ELSE -1,
                          seq |-> 0,
                          uids |-> Range(uids) \cap StoredUids(account),
                          stale |-> HoldingFlags(account, uids)]
    /\ UNCHANGED <<sync_state, filters, filtered_emails, filter_sync_state, filter_seq>>
    /\ UNCHANGED <<syncing, task, queue, events>>

\* A mailbox with MaxUid unseen messages, some of them stored by an earlier
\* unread-only fetch, and no sync cursor yet.
ReadInit ==
    /\ syncing = {}
    /\ task = [i \in Slots |-> IdleTask]
    /\ queue = [i \in Slots |-> <<>>]
    /\ events = [i \in Slots |-> <<>>]
    /\ remote = [a \in Accounts |->
                    IF a \in SyncAccounts
                    THEN [uids |-> UIDs, next |-> MaxUid + 1, seen |-> {}]
                    ELSE [uids |-> {}, next |-> 1, seen |-> {}]]
    /\ \E stored \in SUBSET UIDs :
          emails = UpsertEmails({}, "a@x.com", RemoteMsgs(SortedSeq(stored)))
    /\ sync_state = [a \in Accounts |-> 0]
    /\ filters = <<>>
    /\ filtered_emails = {}
    /\ filter_sync_state = [a \in Accounts |-> 0]
    /\ filter_seq = 0
    /\ lastCall = NoCall
    /\ schema = CurrentSchema

\* One full sync at a time and one gmail_mark_as_read.
ReadSlots == {1}
ReadNext ==
    \/ \E i \in ReadSlots, e \in SyncAccounts : InvokeSyncAll(i, e)
    \/ \E i \in ReadSlots : TaskStart(i)
    \/ \E i \in ReadSlots : BlockingBegin(i)
    \/ \E i \in ReadSlots : Search(i)
    \/ \E i \in ReadSlots : FetchChunk(i)
    \/ \E i \in ReadSlots, upsertOk \in BOOLEAN, bodiesOk \in BOOLEAN, setOk \in BOOLEAN :
          ChunkCallback(i, upsertOk, bodiesOk, setOk)
    \/ \E i \in ReadSlots : Finish(i)
    \/ \E i \in ReadSlots : Release(i)
    \/ \E i \in ReadSlots : ProgressEmit(i)
    \/ \E e \in SyncAccounts, uids \in UidLists, remoteOk \in BOOLEAN :
          \E failAt \in FailPoints(uids) : MarkAsRead(e, uids, remoteOk, failAt)

ReadSpec == ReadInit /\ [][ReadNext]_vars

\* ------------------------------------------------------------- claims ----
FullSyncPcs == {"spawned", "begin", "search", "chunks", "joined", "releasing"}
UnreadSyncPcs == {"spawned", "begin", "joined"}

\* The full syncs of an account that are in flight.
RunningAll(a) ==
    {i \in Slots : task[i].kind = "all" /\ task[i].email = a
                    /\ task[i].pc \in FullSyncPcs}
\* The unread-only syncs of an account that are in flight.
RunningUnread(a) ==
    {i \in Slots : task[i].kind = "unread" /\ task[i].email = a
                    /\ task[i].pc \in UnreadSyncPcs}

\* Slot i takes a gmail_sync_all_background invocation in this step.
InvokesAll(i) ==
    /\ SlotFree(i) /\ task'[i] # task[i]
    /\ task'[i].kind = "all" /\ task'[i].pc \in {"skipped", "spawned"}

C1_OneRunning ==
    /\ \A a \in Accounts :
          /\ Cardinality(RunningAll(a)) <= 1
          /\ a \in syncing <=> RunningAll(a) # {}
    /\ \A i \in Slots : task[i].pc = "skipped" => events[i] = <<>> /\ queue[i] = <<>>

C1_SkipIsNoOp ==
    \A i \in Slots :
       InvokesAll(i) /\ task'[i].email \in syncing =>
          /\ task'[i].pc = "skipped"
          /\ syncing' = syncing /\ queue' = queue /\ remote' = remote
          /\ emails' = emails /\ sync_state' = sync_state
          /\ \A j \in Slots \ {i} : task'[j] = task[j] /\ events'[j] = events[j]

\* C1: an invocation of gmail_sync_all_background for an account that is in the
\* syncing set changes nothing and spawns nothing, so that at most one full sync
\* of an account is running at any time, whatever the interleaving of the calls.
C1_Dedup == []C1_OneRunning /\ [][C1_SkipIsNoOp]_vars

\* Two invocations for one account: one runs its sync, the other was skipped.
C1_Witness ==
    \E i, j \in Slots :
       /\ i # j /\ task[i].email = task[j].email
       /\ task[i].kind = "all" /\ task[i].pc = "chunks"
       /\ task[j].kind = "all" /\ task[j].pc = "skipped"

\* C2: at most one background sync, unread-only or full, is in flight per
\* account at every moment.
C2_OneSyncInFlight ==
    \A a \in Accounts : Cardinality(RunningAll(a) \cup RunningUnread(a)) <= 1

\* C3: once a chunk callback has advanced the sync cursor, the messages of that
\* chunk and of all earlier chunks of the sync are in the store.
C3_CursorOnlyPastCommitted ==
    \A i \in Slots :
       task[i].kind = "all" =>
          \A k \in 1..Len(task[i].log) :
             task[i].log[k].cursor_ok =>
                \A j \in 1..k : task[i].log[j].uids \subseteq StoredUids(task[i].email)

\* C4: the stored sync cursor of an account never decreases.
C4_CursorMonotonic ==
    [][\A a \in Accounts : sync_state'[a] >= sync_state[a]]_vars

\* C5: when persisting a chunk fails, no later chunk of that sync is processed
\* and the sync ends with the error stage.
C5_ChunkFailureAborts ==
    \A i \in Slots :
       task[i].kind = "all" =>
          \A k \in 1..Len(task[i].log) :
             ~task[i].log[k].upsert_ok =>
                /\ k = Len(task[i].log)
                /\ "complete" \notin Range(events[i])
                /\ task[i].pc = "releasing" => "error" \in Range(events[i])

Terminal == {"complete", "error"}

\* C6: the stages emitted for one sync are start, then progress events, then
\* one terminal event, and nothing after the terminal event.
C6_StageOrder ==
    \A i \in Slots :
       /\ events[i] # <<>> => events[i][1] = "start"
       /\ \A k \in 2..Len(events[i]) :
             events[i][k] # "start" /\ events[i][k - 1] \notin Terminal
       /\ task[i].pc = "done" => events[i][Len(events[i])] \in Terminal

C7_SpawnsWhenUnmarked ==
    \A i \in Slots :
       InvokesAll(i) /\ task'[i].email \notin syncing =>
          task'[i].pc = "spawned" /\ task'[i].email \in syncing'

\* C7: every started full sync eventually removes its account from the syncing
\* set, whatever its result, and an invocation that finds the account unmarked
\* runs a sync again.
C7_MarkerCleared ==
    /\ \A a \in Accounts : (a \in syncing) ~> (a \notin syncing)
    /\ [][C7_SpawnsWhenUnmarked]_vars

\* A full sync has ended with an error and cleared its marker, and a later
\* invocation for the same account has spawned a new sync.
C7_Witness ==
    \E i, j \in Slots :
       /\ i # j /\ task[i].email = task[j].email
       /\ task[i].kind = "all" /\ task[i].pc = "done"
       /\ "error" \in Range(events[i])
       /\ task[j].kind = "all" /\ task[j].pc = "spawned"

\* The FilteredMessage set of an account after one pass over all its messages.
SinglePass(a) ==
    {p \in {r.id : r \in AccountEmails(emails, a)} \X {f.id : f \in Range(filters)} :
        \E r \in AccountEmails(emails, a) :
           /\ r.id = p[1]
           /\ p[2] \in match_filters(r.subject, r.sender, compile_filters(filters))}

\* C8: for any stored messages and filters of an account, repeated calls of
\* refresh_filtered_emails with a chunk size below the number of messages
\* yield, after finitely many calls, the filtered_emails rows of a single
\* pass with an unbounded chunk size.
C8_BackfillComplete ==
    \A a \in Accounts :
       <>(FilteredOf(filtered_emails, emails, a) = SinglePass(a))

\* C9: for fixed messages and filters, the repeated calls
\* refresh_filtered_emails(account, chunk_size >= 1, false) return 0 after
\* finitely many calls, and every further call returns 0.
C9_CaughtUp ==
    \A a \in Accounts :
       <>[](lastCall.op = "refresh" /\ lastCall.account = a => lastCall.result = 0)

\* This step is a call of refresh_filtered_emails for account a that returned Ok.
RefreshReturned(a) ==
    /\ lastCall' # lastCall
    /\ lastCall'.op = "refresh" /\ lastCall'.account = a /\ lastCall'.result >= 0

\* The rows of an account with the n lowest ids.
LowestRows(a, n) ==
    {r \in AccountEmails(emails, a) :
        Cardinality({q \in AccountEmails(emails, a) : q.id < r.id}) < n}

\* An enabled filter's rule holds of a message: case-insensitive substring or
\* regular expression over the targeted field.
RuleHolds(f, r) ==
    /\ f.enabled
    /\ \E t \in (IF f.field = "subject" THEN {r.subject}
                 ELSE IF f.field = "sender" THEN {r.sender}
                 ELSE {r.subject, r.sender}) :
          IF f.is_regex THEN RegexCompiles(f.pattern) /\ RegexIsMatch(f.pattern, t)
          ELSE Contains(ToLowercase(t), ToLowercase(f.pattern))

C10_RewindStep ==
    \A a \in Accounts :
       (/\ RefreshReturned(a)
        /\ FilteredOf(filtered_emails, emails, a) = {}
        /\ filter_sync_state[a] > 0) =>
          LET done == LowestRows(a, lastCall'.chunk_size) IN
          /\ lastCall'.result = Cardinality(done)
          /\ filter_sync_state'[a] = Max({r.id : r \in done})
          /\ \A r \in done : \A k \in 1..Len(filters) :
                RuleHolds(filters[k], r) => <<r.id, filters[k].id>> \in filtered_emails'
          /\ \A p \in FilteredOf(filtered_emails', emails', a) :
                p[1] \in {r.id : r \in done}

\* C10: a successful refresh_filtered_emails call for an account that has no
\* filtered_emails rows and a nonzero filter cursor processes the messages from
\* the lowest id on, records every match among them and leaves the cursor at
\* the highest id it processed.
C10_Rewind == [][C10_RewindStep]_vars

\* A call has rewound a nonzero cursor, processed both messages of the account
\* and recorded a match, while the other account holds a message too.
C10_Witness ==
    /\ lastCall.op = "refresh" /\ lastCall.rewind /\ lastCall.result = 2
    /\ FilteredOf(filtered_emails, emails, lastCall.account) # {}
    /\ \E r \in emails : r.account # lastCall.account

\* The rule of a filter holds of a message: its pattern, as a regular expression
\* or as a substring, occurs case-insensitively in the targeted field.
RuleSatisfied(f, r) ==
    LET inText(t) ==
           IF f.is_regex
           THEN /\ "(" \notin Range(f.pattern)
                /\ \E i \in 1..(Len(t) + 1), j \in 0..Len(t) :
                      LET lit == SelectSeq(f.pattern, LAMBDA ch : ch \notin {"^", "$"})
                      IN /\ j - i + 1 = Len(lit)
                         /\ \A k \in 1..Len(lit) : ToLower(t[i + k - 1]) = ToLower(lit[k])
                         /\ f.pattern[1] = "^" => i = 1
                         /\ f.pattern[Len(f.pattern)] = "$" => j = Len(t)
           ELSE \E i \in 1..(Len(t) + 1) :
                   /\ i + Len(f.pattern) - 1 <= Len(t)
                   /\ \A k \in 1..Len(f.pattern) :
                         ToLower(t[i + k - 1]) = ToLower(f.pattern[k])
    IN CASE f.field = "subject" -> inText(r.subject)
         [] f.field = "sender" -> inText(r.sender)
         [] OTHER -> inText(r.subject) \/ inText(r.sender)

C11_CountsStep ==
    \A a \in Accounts :
       (/\ RefreshReturned(a)
        /\ lastCall'.result >= 1
        /\ lastCall'.result = Cardinality(AccountEmails(emails, a))) =>
          \A k \in 1..Len(filters) :
             filter_match_counts(filters', filtered_emails', emails', a, FALSE)[k]
                = <<filters[k].id,
                    Cardinality({r \in AccountEmails(emails, a) :
                                    RuleSatisfied(filters[k], r)})>>

\* C11: after a refresh_filtered_emails call that processed every message of an
\* account in one pass, filter_match_counts reports for each filter the number
\* of the account's messages whose targeted field satisfies the rule,
\* case-insensitively, as a substring or as a regular expression.
C11_MatchCounts == [][C11_CountsStep]_vars

\* A pass over the two messages of an account with a substring and a regex
\* filter stored, each of which matched one message.
C11_Witness ==
    /\ lastCall.op = "refresh" /\ lastCall.result = 2
    /\ Len(filters) = 2 /\ filters[1].is_regex # filters[2].is_regex
    /\ filter_match_counts(filters, filtered_emails, emails, lastCall.account, FALSE)
          = <<<<1, 1>>, <<2, 1>>>>

\* C12: no filtered_emails row is recorded for a filter whose enabled flag is
\* false.
C12_OnlyEnabledRecorded ==
    \A p \in filtered_emails :
       \A k \in 1..Len(filters) : filters[k].id = p[2] => filters[k].enabled

\* The messages of an account stored after the filter cursor was last advanced.
NewMessages(a) == {r \in AccountEmails(emails, a) : r.id > filter_sync_state[a]}

\* The account has rows or a zero cursor: the last refresh left no rewind due.
NoRewindDue(a) ==
    FilteredOf(filtered_emails, emails, a) # {} \/ filter_sync_state[a] = 0

\* This step is a refresh_filtered_emails(a, c, false) call that succeeds and
\* whose chunk size covers the messages stored since the cursor last advanced.
C13_Called(a, c) ==
    /\ lastCall' # lastCall /\ lastCall'.op = "refresh"
    /\ lastCall'.account = a /\ lastCall'.chunk_size = c
    /\ RefreshFilteredEmails(a, c, FALSE, "none")
    /\ c >= Cardinality(NewMessages(a))

\* The call processed the new messages of account a and only them.
C13_OnlyNew(a) ==
    /\ lastCall'.result = Cardinality(NewMessages(a))
    /\ filtered_emails \subseteq filtered_emails'
    /\ \A p \in filtered_emails' \ filtered_emails :
          p[1] \in {r.id : r \in NewMessages(a)}
    /\ \A k \in 1..Len(filters) :
          (\A r \in NewMessages(a) : ~RuleSatisfied(filters[k], r)) =>
             filter_match_counts(filters', filtered_emails', emails', a, FALSE)[k]
                = filter_match_counts(filters, filtered_emails, emails, a, FALSE)[k]

\* C13: once the messages up to the cursor of an account have been processed,
\* a refresh_filtered_emails(account, chunk_size, false) call after new
\* messages were stored returns the number of new messages, leaves every
\* earlier filtered_emails row in place, adds rows for new messages only, and
\* leaves the count of a filter that matches no new message unchanged.
C13_AfterCaughtUp ==
    [][\A a \in Accounts, c \in 1..MaxChunk : C13_Called(a, c) => C13_OnlyNew(a)]_vars

\* The same statement for the calls at which no rewind is due.
C13_IncrementalStep ==
    \A a \in Accounts, c \in 1..MaxChunk :
       (C13_Called(a, c) /\ NoRewindDue(a)) => C13_OnlyNew(a)

C13_Incremental == [][C13_IncrementalStep]_vars

\* A call has processed one new message of an account whose earlier message
\* had been processed and matched before.
C13_Witness ==
    /\ lastCall.op = "refresh" /\ lastCall.result = 1 /\ ~lastCall.rewind
    /\ \E r, q \in AccountEmails(emails, lastCall.account) :
          /\ r.id < q.id /\ filter_sync_state[lastCall.account] = q.id
          /\ \E p \in filtered_emails : p[1] = r.id
          /\ \E p \in filtered_emails : p[1] = q.id

\* This step is a call of refresh_filtered_emails for account a.
RefreshCalled(a) ==
    lastCall' # lastCall /\ lastCall'.op = "refresh" /\ lastCall'.account = a

C20_CursorStep ==
    \A a \in Accounts :
       /\ \A c \in 1..MaxChunk, f \in BOOLEAN, failAt \in {"none", "tx"} :
             (/\ RefreshCalled(a) /\ lastCall'.chunk_size = c
              /\ RefreshFilteredEmails(a, c, f, failAt)) =>
                LET startsOver == f \/ FilteredOf(filtered_emails, emails, a) = {}
                    from == IF startsOver THEN 0 ELSE filter_sync_state[a]
                    above == {r.id : r \in {x \in AccountEmails(emails, a) : x.id > from}}
                IN /\ \/ filter_sync_state'[a] >= filter_sync_state[a]
                      \/ startsOver /\ filter_sync_state'[a] = 0
                      \/ startsOver /\ lastCall'.result > 0
                   /\ lastCall'.result > 0 =>
                         /\ filter_sync_state'[a] \in above
                         /\ Cardinality({i \in above : i <= filter_sync_state'[a]})
                               = lastCall'.result
                         /\ lastCall'.result = c \/ filter_sync_state'[a] = Max(above)
                   /\ \A b \in Accounts \ {a} :
                         filter_sync_state'[b] = filter_sync_state[b]
       /\ (\A b \in Accounts : ~RefreshCalled(b)) =>
             filter_sync_state'[a] = filter_sync_state[a]

\* C20: while the filters stay the same, the filter cursor of an account never
\* decreases across refresh_filtered_emails calls, except when the call starts
\* over from zero (force_full, or the account has no filtered_emails row); after
\* a call that processed messages the cursor is the highest id it processed.
C20_FilterCursor == [][C20_CursorStep]_vars

\* A call has advanced a nonzero cursor past a second message without starting
\* over.
C20_Witness ==
    /\ lastCall.op = "refresh" /\ lastCall.result = 1 /\ ~lastCall.rewind
    /\ \E r, q \in AccountEmails(emails, lastCall.account) :
          r.id < q.id /\ filter_sync_state[lastCall.account] = q.id
    /\ Cardinality(FilteredOf(filtered_emails, emails, lastCall.account)) = 1

\* This step is a call of save_filters.
SaveCalled == lastCall' # lastCall /\ lastCall'.op = "save"

RowsOf(fe, id) == {p \in fe : p[2] = id}

\* Pattern, field and regex-mode of f and g are identical.
SameRule(f, g) ==
    f.pattern = g.pattern /\ f.field = g.field /\ f.is_regex = g.is_regex

C14_UntouchedStep ==
    SaveCalled =>
       \A i \in 1..Len(filters), j \in 1..Len(filters') :
          (filters[i].id = filters'[j].id /\ SameRule(filters[i], filters'[j])) =>
             RowsOf(filtered_emails', filters[i].id) = RowsOf(filtered_emails, filters[i].id)

\* C14: save_filters leaves the filtered_emails rows of every rule that is
\* stored before and after the call with the same pattern, field and
\* regex-mode as they were, whatever happened to its name and enabled flag.
C14_Untouched == [][C14_UntouchedStep]_vars

\* After a successful call a disabled rule (it was stored enabled, so a call
\* switched it) still has no row although a stored message satisfies it, next
\* to a rule whose rows were computed.
C14_Witness ==
    /\ lastCall.op = "save" /\ lastCall.result = 0
    /\ \E j, k \in 1..Len(filters) :
          /\ ~filters[j].enabled /\ RowsOf(filtered_emails, filters[j].id) = {}
          /\ \E r \in emails : RuleSatisfied(filters[j], r)
          /\ RowsOf(filtered_emails, filters[k].id) # {}

\* The rows of rule f over the messages of tbl, of every account.
MatchRows(f, tbl) == {<<r.id, f.id>> : r \in {x \in tbl : RuleSatisfied(f, x)}}

C15_RecomputedStep ==
    (SaveCalled /\ lastCall'.result = 0) =>
       \A j \in 1..Len(filters') :
          (\/ filters'[j].id \notin FilterIds(filters)
           \/ ~SameRule(Previous(filters, filters'[j].id), filters'[j])) =>
             RowsOf(filtered_emails', filters'[j].id) = MatchRows(filters'[j], emails')

\* C15: when save_filters returns Ok, every rule that was inserted or whose
\* pattern, field or regex-mode changed has exactly the filtered_emails rows
\* of the stored messages, of every account, that satisfy its new definition.
C15_Recomputed == [][C15_RecomputedStep]_vars

\* After a successful call a rule that is stored as a regex on the sender has
\* the rows of the messages of both accounts whose sender starts with "p", and
\* its name shows that it was stored as a substring rule first.
C15_Witness ==
    /\ lastCall.op = "save" /\ lastCall.result = 0
    /\ \E j \in 1..Len(filters) :
          /\ filters[j].is_regex /\ filters[j].name = RuleSubstring.name
          /\ RowsOf(filtered_emails, filters[j].id) = {<<2, filters[j].id>>, <<3, filters[j].id>>}

\* C16: a save_filters call that returns Err leaves the stored filters and the
\* filtered_emails rows as they were before the call.
C16_Atomic ==
    [][(SaveCalled /\ lastCall'.result = -1) =>
          /\ filters' = filters
          /\ filtered_emails' = filtered_emails]_vars

C17_DeleteStep ==
    SaveCalled =>
       \A id \in FilterIds(filters) \ FilterIds(filters') : RowsOf(filtered_emails', id) = {}

\* Every filtered_emails row refers to a stored filter and a stored message.
C17_References ==
    \A p \in filtered_emails :
       /\ \E r \in emails : r.id = p[1]
       /\ p[2] \in FilterIds(filters)

\* C17: save_filters deletes the filtered_emails rows of every stored rule
\* that is absent from the new set, and every filtered_emails row refers to a
\* stored filter and a stored message.
C17_Cascade == [][C17_DeleteStep]_vars /\ []C17_References

\* The first filter the store held is gone, the second one is stored with its
\* rows.
C17_Witness ==
    /\ lastCall.op = "save" /\ lastCall.result = 0
    /\ filter_seq = 2 /\ FilterIds(filters) = {2}
    /\ RowsOf(filtered_emails, 2) # {}

\* The fields of a filter that the caller chooses.
StripId(f) ==
    [name |-> f.name, pattern |-> f.pattern, field |-> f.field,
     is_regex |-> f.is_regex, enabled |-> f.enabled]

\* This step is the call save_filters(p), which returned Ok.
SavedOk(p) == SaveFilters(p, "none", 0)

C18_ReplaceStep ==
    (SaveCalled /\ lastCall'.result = 0) =>
       \A p \in SaveInputs(filters) :
          SavedOk(p) =>
             /\ Len(filters') = Len(p)
             /\ \E at \in Orderings(1..Len(p)) :
                   \A k \in 1..Len(p) : StripId(filters'[at[k]]) = StripId(p[k])
             /\ \A j \in 1..Len(filters') : filters'[j].id > 0
             /\ Cardinality(FilterIds(filters')) = Len(filters')

\* C18: after save_filters(patterns) returns Ok the stored filters, which are
\* what it returns and what get_filters reads, are one rule per element of
\* patterns with that element's name, pattern, field, is_regex and enabled,
\* and no other rule; each has an id of its own given by the store.
C18_FullReplace == [][C18_ReplaceStep]_vars

\* Two rules are stored after a successful call, one of them renamed and one
\* of them disabled by the caller.
C18_Witness ==
    /\ lastCall.op = "save" /\ lastCall.result = 0
    /\ Len(filters) = 2
    /\ \E j, k \in 1..2 : filters[j].name = "n" /\ ~filters[k].enabled

C19_IdentityStep ==
    /\ filter_seq' >= filter_seq
    /\ FilterIds(filters') \ FilterIds(filters) \subseteq (filter_seq + 1)..filter_seq'
    /\ (SaveCalled /\ lastCall'.result = 0) =>
          \A p \in SaveInputs(filters) :
             SavedOk(p) =>
                \A k \in 1..Len(p) :
                   p[k].id \in FilterIds(filters) =>
                      \E j \in 1..Len(filters') : filters'[j] = p[k]

\* Every id stored was handed out by the sequence, to one rule.
C19_Assigned ==
    /\ FilterIds(filters) \subseteq 1..filter_seq
    /\ Cardinality(FilterIds(filters)) = Len(filters)

\* C19: the ids of the rules a save_filters call inserts are above every id
\* the store handed out before, whether or not the rule that had it is still
\* stored, and a rule the caller sends with a stored id is stored under that
\* id with the fields sent.
C19_Identity == [][C19_IdentityStep]_vars /\ []C19_Assigned

\* The rule that had id 1 is gone; the rule inserted after it has id 2 and
\* was renamed since.
C19_Witness ==
    /\ lastCall.op = "save" /\ lastCall.result = 0
    /\ FilterIds(filters) = {2} /\ filters[1].name = "n"

\* The messages of account a, unread only when asked, that have a
\* filtered_emails row for the filter id.
MatchingMessages(a, unread_only, id) ==
    {r \in emails : /\ r.account = a
                    /\ unread_only => ~r.is_read
                    /\ <<r.id, id>> \in filtered_emails}

\* C30: filter_match_counts(account, unread_only) has one entry per stored
\* filter, in the order the filters were created (ascending id), whose count
\* is the number of messages of the account, unread only when asked, with a
\* filtered_emails row for the filter; it is zero when there is none.
C30_OneEntryPerFilter ==
    \A a \in Accounts, unread_only \in BOOLEAN :
       \E counts \in {filter_match_counts(filters, filtered_emails, emails, a, unread_only)} :
          /\ Len(counts) = Len(filters)
          /\ \A k \in 1..Len(counts) :
                /\ counts[k][1] = filters[k].id
                /\ counts[k][2] = Cardinality(MatchingMessages(a, unread_only, filters[k].id))
          /\ \A j, k \in 1..Len(counts) : j < k => counts[j][1] < counts[k][1]

\* Two filters are stored: one has rows for messages of both accounts, one of
\* them read; the other has no row and an entry with count zero.
C30_Witness ==
    /\ Len(filters) = 2
    /\ filter_match_counts(filters, filtered_emails, emails, "a@x.com", FALSE)[1][2] = 1
    /\ filter_match_counts(filters, filtered_emails, emails, "a@x.com", TRUE)[1][2] = 0
    /\ filter_match_counts(filters, filtered_emails, emails, "b@x.com", TRUE)[1][2] = 1
    /\ filter_match_counts(filters, filtered_emails, emails, "b@x.com", TRUE)[2][2] = 0

\* The stored fields upsert_emails writes from a delivered message.
Delivered(r, m) ==
    /\ r.uid = m.uid /\ r.subject = m.subject /\ r.sender = m.sender
    /\ r.is_read = m.is_read

\* The last position of uid u in the batch.
LastDelivery(batch, u) == Max({k \in 1..Len(batch) : batch[k].uid = u})

\* The table is what a committed upsert of the batch for account a makes of
\* the table before it: one row per delivered uid with the fields of its last
\* delivery, the rows of the other messages as they were, one row per
\* (account, uid) in all, and a second upsert of the batch changes nothing.
C21_Upserted(a, batch) ==
    /\ \A u \in {batch[k].uid : k \in 1..Len(batch)} :
          \E r \in emails' :
             /\ r.account = a /\ Delivered(r, batch[LastDelivery(batch, u)])
             /\ \A q \in emails' : (q.account = a /\ q.uid = u) => q = r
    /\ {r \in emails' : ~(r.account = a /\ \E k \in 1..Len(batch) : batch[k].uid = r.uid)}
         = {r \in emails : ~(r.account = a /\ \E k \in 1..Len(batch) : batch[k].uid = r.uid)}
    /\ \A r, q \in emails' : (r.account = q.account /\ r.uid = q.uid) => r = q
    /\ UpsertEmails(emails', a, batch) = emails'

C21_UpsertStep ==
    (lastCall'.op = "upsert" /\ lastCall'.result = 0) =>
       \A a \in {lastCall'.account} : \A batch \in MailBatches(a) :
          MailUpsert(a, batch, TRUE) => C21_Upserted(a, batch)

\* C21: upsert_emails is idempotent on (account, uid): after upserts there is
\* exactly one row per (account, uid) delivered, holding the fields of the
\* latest delivery, and upserting a batch a second time gives the store the
\* first upsert gave.
C21_Idempotent == [][C21_UpsertStep]_vars /\ [](emails \in MailTables)

\* All three messages are stored after an upsert for b@x.com, whose only
\* message has id 1: it was stored before the call (a new row would have
\* taken the largest id) and the call delivered it again.
C21_Witness ==
    /\ lastCall.op = "upsert" /\ lastCall.result = 0 /\ lastCall.account = "b@x.com"
    /\ Cardinality(emails) = 3
    /\ \E r \in emails : r.account = "b@x.com" /\ r.id = 1

\* The row of table tbl for the (account, uid) of row r has the bodies of r.
SameBodies(tbl, r) ==
    \E q \in tbl : /\ q.account = r.account /\ q.uid = r.uid
                   /\ q.body_html = r.body_html /\ q.body_text = r.body_text

\* A call other than set_email_bodies leaves the bodies of every stored
\* message as they were, and the rows it adds have none.
C22_BodyStep ==
    lastCall'.op # "set_bodies" =>
       /\ \A r \in emails : SameBodies(emails', r)
       /\ \A q \in emails' :
             (\A r \in emails : ~(r.account = q.account /\ r.uid = q.uid)) =>
                get_email_body(emails', q.account, q.uid) = {}

\* C22: delivering a stored uid again through upsert_emails leaves the
\* message's cached HTML and text bodies unchanged; the bodies change only
\* through set_email_bodies.
C22_BodiesKept == [][C22_BodyStep]_vars

\* The message of b@x.com, stored before the call with id 1, was delivered
\* again with another subject and as read, and has its HTML and text bodies.
C22_Witness ==
    /\ lastCall.op = "upsert" /\ lastCall.result = 0 /\ lastCall.account = "b@x.com"
    /\ Cardinality(emails) = 3
    /\ \E r \in emails : /\ r.account = "b@x.com" /\ r.id = 1
                         /\ r.subject = <<"I", "n">> /\ r.is_read
                         /\ get_email_body(emails, "b@x.com", r.uid) = {[html |-> "<p>", text |-> "t"]}

\* The listed uids that are stored for account a and unread.
ListedUnread(tbl, a, uids) == Range(uids) \cap list_emails(tbl, a, TRUE)

C23_MarkReadStep ==
    (lastCall'.op = "mark_read" /\ lastCall'.result >= 0) =>
       \A a \in {lastCall'.account} : \A uids \in UidLists :
          MarkRead(a, uids, 0) =>
             /\ Range(uids) \cap list_emails(emails', a, TRUE) = {}
             /\ count_emails(emails', a, TRUE)
                  = count_emails(emails, a, TRUE) - Cardinality(ListedUnread(emails, a, uids))

\* C23: mark_emails_read(account, uids) removes every listed uid from the
\* unread-only listing of the account and decreases the unread count of the
\* account by the number of listed uids that were stored and unread before
\* the call.
C23_MarkRead == [][C23_MarkReadStep]_vars

\* mark_emails_read covered both messages of a@x.com: none of them is in the
\* unread-only listing, and the message of b@x.com is still unread.
C23_Witness ==
    /\ lastCall.op = "mark_read" /\ lastCall.account = "a@x.com" /\ lastCall.result = 2
    /\ count_emails(emails, "a@x.com", FALSE) = 2
    /\ list_emails(emails, "a@x.com", TRUE) = {}
    /\ list_emails(emails, "b@x.com", TRUE) = {1}

\* The stored messages of account a whose read flag after the step differs
\* from the one before it.
FlagChanged(a) ==
    {r \in emails : r.account = a /\ \E q \in emails' : q.id = r.id /\ q.is_read # r.is_read}

C24_CountStep ==
    (lastCall'.op \in {"mark_read", "mark_unread"} /\ lastCall'.result >= 0) =>
       lastCall'.result = Cardinality(FlagChanged(lastCall'.account))

\* C24: mark_emails_read and mark_emails_unread return the count of rows
\* changed: the number of stored messages of the account whose read flag
\* differs after the call from before it; a listed uid that had the target
\* state, or that is listed twice, is not counted.
C24_ReturnsChanged == [][C24_CountStep]_vars

\* The uid lists that take more than one statement.
LongLists == {uids \in UidLists : Len(uids) > MarkChunk}

C25_AtomicStep ==
    lastCall'.op = "mark_read" =>
       /\ lastCall'.result < 0 => emails' = emails
       /\ lastCall'.result >= 0 =>
             \A a \in {lastCall'.account} : \A uids \in LongLists :
                MarkRead(a, uids, 0) => emails' = MarkStatement(emails, a, uids, TRUE).tbl

\* C25: mark_emails_read over a uid list longer than a statement chunk is
\* all-or-nothing: when the statement of a chunk or the commit fails, no
\* read flag is changed by the call; when all succeed, the store is the one a
\* single UPDATE over the whole list gives.
C25_AllOrNothing == [][C25_AtomicStep]_vars

\* Both messages of a@x.com are read after a call whose statements selected
\* three rows in all: it took more than one chunk.
C25_Witness ==
    /\ lastCall.op = "mark_read" /\ lastCall.account = "a@x.com" /\ lastCall.result = 3
    /\ count_emails(emails, "a@x.com", FALSE) = 2
    /\ count_emails(emails, "a@x.com", TRUE) = 0

Front(s) == SubSeq(s, 1, Len(s) - 1)

\* The uids of the chunks handed to on_chunk so far, in the order of delivery.
RECURSIVE DeliveredUids(_)
DeliveredUids(log) ==
    IF log = <<>> THEN <<>> ELSE DeliveredUids(Front(log)) \o log[Len(log)].chunk

\* The uids the call has to fetch: all of the mailbox when since_uid = 0, else
\* those above since_uid.
ToFetch(t) == {u \in remote[t.email].uids : t.last_uid = 0 \/ u > t.last_uid}

\* C26: fetch_emails_since delivers the uids to fetch (all uids when
\* since_uid = 0, otherwise exactly those strictly greater than since_uid) as
\* a partition into chunks of at most batch_size uids, ascending within and
\* across chunks, each uid in exactly one chunk.
C26_Partition ==
    /\ \A k \in 1..Len(task[1].log) :
          Len(task[1].log[k].chunk) \in 1..task[1].batch_size
    /\ (task[1].pc = "joined" /\ task[1].result = "ok") =>
          DeliveredUids(task[1].log) = SortedSeq(ToFetch(task[1]))

\* C27: fetch_emails_since tracks the maximum uid of the chunks it delivered
\* and hands it to the caller when it returns, also when a later chunk
\* failed; on success the returned maximum is the highest uid of the whole
\* fetched set.
C27_MaxReturned ==
    (task[1].pc = "joined" /\ task[1].log # <<>>) =>
       task[1].max_uid = Max(Range(DeliveredUids(task[1].log)))

\* The n highest elements of a set of uids.
HighestUids(S, n) == {u \in S : Cardinality({v \in S : v > u}) < n}

\* C29: across the chunks of one fetch_emails_since call, bodies are
\* prefetched for exactly the min(body_prefetch_limit, total) highest uids
\* of the whole fetched set, not of each chunk, and each body is delivered in
\* the chunk that holds its uid.
C29_BodyPrefetch ==
    /\ \A k \in 1..Len(task[1].log) : task[1].log[k].bodies \subseteq task[1].log[k].uids
    /\ (task[1].pc = "joined" /\ task[1].result = "ok") =>
          UNION {task[1].log[k].bodies : k \in 1..Len(task[1].log)}
             = HighestUids(Range(DeliveredUids(task[1].log)),
                           IF task[1].body_prefetch_limit < task[1].total
                           THEN task[1].body_prefetch_limit ELSE task[1].total)

\* Three uids were fetched in chunks of two with a body limit of two: the
\* first chunk carried the body of uid 2 only, the second that of uid 3.
C29_Witness ==
    /\ task[1].pc = "joined" /\ task[1].result = "ok"
    /\ task[1].body_prefetch_limit = 2 /\ task[1].batch_size = 2
    /\ Len(task[1].log) = 2
    /\ task[1].log[1].chunk = <<1, 2>> /\ task[1].log[1].bodies = {2}
    /\ task[1].log[2].chunk = <<3>> /\ task[1].log[2].bodies = {3}

\* A full sync that ended with Err(String) from fetch_emails_since or from
\* get_last_uid.
Failed(i) == task[i].kind = "all" /\ task[i].result = "err"

\* The step in which a round trip of the fetch fails hands no chunk to the
\* callback and writes nothing; the steps of the failed sync that follow write
\* neither messages nor cursor, hand over no chunk and emit "error".
C28_AbortStep ==
    \A i \in Slots :
       /\ (task[i].kind = "all" /\ task[i].pc \in {"search", "chunks"} /\ Failed(i)') =>
             /\ task'[i].pc = "joined" /\ task'[i].log = task[i].log
             /\ queue'[i] = queue[i]
             /\ emails' = emails /\ sync_state' = sync_state
       /\ (Failed(i) /\ task'[i] # task[i]) =>
             /\ emails' = emails /\ sync_state' = sync_state
             /\ task'[i].pc \in {"releasing", "done"}
             /\ Len(queue'[i]) <= Len(queue[i])
             /\ task'[i].pc = "releasing" =>
                   /\ task'[i].log = task[i].log
                   /\ events'[i] = Append(events[i], "error")

\* C28: a round-trip failure in fetch_emails_since aborts the sync: the
\* callback is not invoked for the failing chunk or a later one, and the
\* messages and the cursor persisted for the chunks delivered before the
\* failure stay as they were persisted.
C28_FailureAborts == [][C28_AbortStep]_vars

\* The sync failed at its second chunk and emitted "error"; the message and
\* the cursor of the first chunk are stored.
C28_Witness ==
    \E i \in Slots :
       /\ Failed(i) /\ task[i].pc = "releasing" /\ Len(task[i].log) = 1
       /\ task[i].total = 2
       /\ task[i].log[1].upsert_ok /\ task[i].log[1].cursor_ok
       /\ events[i][Len(events[i])] = "error"
       /\ sync_state[task[i].email] = 1
       /\ StoredUids(task[i].email) = {1}

\* The rows of the table for the (account, uid) of row r.
SameKey(tbl, r) == {q \in tbl : q.account = r.account /\ q.uid = r.uid}

\* A step leaves the id of every stored message as it was, and gives a
\* message it inserts an id above every id in the table (no statement of
\* the store deletes from emails, so these are all the ids assigned so far)
\* and above the filter cursor of its account.
C34_IdStep ==
    /\ \A r \in emails : \E q \in SameKey(emails', r) : q.id = r.id
    /\ \A q \in emails' :
          SameKey(emails, q) = {} =>
             /\ \A r \in emails : q.id > r.id
             /\ q.id > filter_sync_state[q.account]

\* C34: the local id of a message is assigned when its (account, uid) is
\* first inserted, is greater than every id assigned before it and never
\* changes on later upserts of the (account, uid); every message inserted
\* after an advance of the filter cursor has an id above that cursor.
C34_StableIds ==
    /\ [][C34_IdStep]_vars
    /\ [](\A r, q \in emails : r.id = q.id => r = q)
    /\ [](\A a \in Accounts : \A r \in emails : filter_sync_state[a] > 0 =>
             \E q \in emails : q.account = a /\ q.id = filter_sync_state[a])

\* An upsert followed the advance of the filter cursor of a@x.com to 1: the
\* message with id 1 is stored with it and the message inserted since has
\* id 2.
C34_Witness ==
    /\ lastCall.op = "upsert" /\ lastCall.account = "a@x.com"
    /\ filter_sync_state["a@x.com"] = 1
    /\ \E r, q \in emails :
          /\ r.account = "a@x.com" /\ r.id = 1
          /\ q.account = "a@x.com" /\ q.id = 2
    /\ Cardinality(emails) = 2

\* filtered_emails and the cursor of the account after a successful
\* refresh_filtered_emails(account, chunk_size, force_full) on the rows fe and
\* the cursor value.
RefreshedStore(fe, cursor, account, chunk_size, force_full) ==
    LET cleared == IF force_full THEN fe \ FilteredOf(fe, emails, account) ELSE fe
        stored == IF force_full THEN 0 ELSE cursor
        last_id == IF Rewinds(Cardinality(FilteredOf(cleared, emails, account)), stored)
                   THEN 0 ELSE stored
        batch == SelectBatch(emails, account, last_id, chunk_size)
    IN IF batch = <<>> THEN <<cleared, last_id>>
       ELSE <<cleared \cup BatchMatches(batch, compile_filters(filters)),
              batch[Len(batch)].id>>

\* A call that fails in its transaction commits no row and no advance of the
\* cursor, and the next call gives what the failed call would have given.
C33_FailedStep ==
    (lastCall'.op = "refresh" /\ lastCall'.result < 0) =>
       \A a \in {lastCall'.account}, c \in {lastCall'.chunk_size}, f \in BOOLEAN :
          RefreshFilteredEmails(a, c, f, "tx") =>
             /\ filtered_emails' \subseteq filtered_emails
             /\ filter_sync_state'[a] <= filter_sync_state[a]
             /\ RefreshedStore(filtered_emails', filter_sync_state'[a], a, c, FALSE)
                  = RefreshedStore(filtered_emails, filter_sync_state[a], a, c, f)

\* A call that succeeds gives RefreshedStore.
C33_SucceededStep ==
    (lastCall'.op = "refresh" /\ lastCall'.result >= 0) =>
       \A a \in {lastCall'.account}, c \in {lastCall'.chunk_size}, f \in BOOLEAN :
          RefreshFilteredEmails(a, c, f, "none") =>
             <<filtered_emails', filter_sync_state'[a]>>
                = RefreshedStore(filtered_emails, filter_sync_state[a], a, c, f)

\* C33: when a refresh_filtered_emails call fails while recording matches,
\* neither its cursor advance nor any of its filtered_emails rows is
\* committed, and calling it again gives the filtered_emails rows and the
\* cursor of a run without the failure: no match is lost and none is
\* recorded twice.
C33_NoPartialProgress == [][C33_FailedStep /\ C33_SucceededStep]_vars

\* A call failed in its transaction over a batch with a match: the cursor of
\* the account is where it was, before the two messages, and no row is
\* recorded.
C33_Witness ==
    /\ lastCall.op = "refresh" /\ lastCall.result < 0 /\ lastCall.account = "a@x.com"
    /\ filter_sync_state["a@x.com"] = 0 /\ filtered_emails = {}
    /\ BatchMatches(SelectBatch(emails, "a@x.com", 0, lastCall.chunk_size),
                    compile_filters(filters)) # {}

\* What the store holds for account b: its messages with their read flags and
\* bodies, its sync cursor, its filter cursor and its filtered_emails rows.
AccountState(tbl, cursors, fe, filter_cursors, b) ==
    <<AccountEmails(tbl, b), cursors[b], filter_cursors[b], FilteredOf(fe, tbl, b)>>

C38_IsolationStep ==
    lastCall'.op # "none" =>
       \A b \in Accounts \ {lastCall'.account} :
          AccountState(emails', sync_state', filtered_emails', filter_sync_state', b)
             = AccountState(emails, sync_state, filtered_emails, filter_sync_state, b)

\* C38: upsert_emails, mark_emails_read, mark_emails_unread, set_last_uid,
\* set_email_bodies and refresh_filtered_emails (force_full included) called
\* for one account leave the messages, read flags, bodies, sync cursor, filter
\* cursor and filtered_emails rows of the other account unchanged.
C38_AccountIsolation == [][C38_IsolationStep]_vars

\* A forced full refresh of a@x.com, which holds two messages, ran while
\* b@x.com holds a message with cached bodies, a filtered_emails row and its
\* two cursors.
C38_Witness ==
    /\ lastCall.op = "refresh" /\ lastCall.account = "a@x.com" /\ lastCall.result = 2
    /\ FilteredOf(filtered_emails, emails, "b@x.com") # {}
    /\ FilteredOf(filtered_emails, emails, "a@x.com") # {}
    /\ sync_state["b@x.com"] = 1 /\ filter_sync_state["b@x.com"] = 1
    /\ get_email_body(emails, "b@x.com", 1) = {[html |-> "<p>", text |-> "t"]}

\* The whole account was listed: no filter on the flag, offset 0 and a limit
\* that covers the rows.
ListedAll ==
    /\ lastCall.op = "list_emails"
    /\ ~lastCall.unread_only /\ lastCall.offset = 0 /\ lastCall.limit = ListUids

\* C32: list_emails returns the messages in descending date_epoch order, and
\* every message whose date_epoch is zero or unknown comes after all messages
\* that have a date.
C32_DescendingUndatedLast ==
    lastCall.op = "list_emails" =>
       \A i, j \in 1..Len(lastCall.result) :
          i < j =>
             /\ lastCall.result[i].date_epoch >= lastCall.result[j].date_epoch
             /\ ~(lastCall.result[i].date_epoch = 0 /\ lastCall.result[j].date_epoch # 0)

\* The claim for the messages dated 1970 or later: with no negative epoch in
\* the table the order is descending and the zero and NULL epochs come last.
C32_NonNegative ==
    (ListedAll /\ \A r \in emails : IfNull(r.date_epoch, 0) >= 0) =>
       \A i, j \in 1..Len(lastCall.result) :
          i < j =>
             /\ lastCall.result[i].date_epoch >= lastCall.result[j].date_epoch
             /\ ~(lastCall.result[i].date_epoch = 0 /\ lastCall.result[j].date_epoch # 0)

\* Every step of migrate is applied: the layout is the current one and no row
\* whose Date header parses is left with date_epoch 0 or NULL.
FullyMigrated ==
    /\ schema = CurrentSchema
    /\ \A r \in emails :
          r.date_epoch \in {{}, {0}} => BackfilledEpoch(r.date) \in {{}, {0}}

\* The layout and the data of the file are the same after the step.
FileUnchanged ==
    /\ schema' = schema
    /\ emails' = emails
    /\ filters' = filters
    /\ filtered_emails' = filtered_emails
    /\ filter_seq' = filter_seq

C31_OpenStep ==
    lastCall'.op = "open" =>
       IF lastCall'.result = 0 THEN FullyMigrated' ELSE FileUnchanged

\* C31: opening the store against an older layout is transactional as a
\* whole: either every migration step is applied or, if a step fails, the
\* layout and the data of the file are exactly as before the opening.
C31_Transactional == [][C31_OpenStep]_vars

\* The ids of the filters of the layout with text ids.
OldIds == {filters[k].id : k \in 1..Len(filters)}

\* g gives every old filter its new id: the filter is in the new table under
\* that id with the fields it had, every filtered_emails row of an old filter
\* is there under the new id, and every new row comes from such a row.
Preserves(g) ==
    /\ \A i, j \in OldIds : i # j => g[i] # g[j]
    /\ Len(filters') = Len(filters)
    /\ \A k \in 1..Len(filters) :
          \E j \in 1..Len(filters') :
             /\ filters'[j].id = g[filters[k].id]
             /\ StripId(filters'[j]) = StripId(filters[k])
    /\ \A r \in filtered_emails :
          r[2] \in OldIds => <<r[1], g[r[2]]>> \in filtered_emails'
    /\ \A n \in filtered_emails' :
          \E r \in filtered_emails :
             r[1] = n[1] /\ r[2] \in OldIds /\ g[r[2]] = n[2]

C39_RewriteStep ==
    (lastCall'.op = "open" /\ lastCall'.rewrote) =>
       \E g \in [OldIds -> 1..Len(filters)] : Preserves(g)

\* C39: the migration from text filter ids to integer ids preserves the
\* associations: every old filtered_emails row (m, f) of an old filter f is in
\* the migrated table as (m, new id of f), no two old filters share a new id,
\* and no row is added.
C39_PreservesAssociations == [][C39_RewriteStep]_vars

\* An open rewrote the ids of two filters, and both have a row for message 1
\* under their new ids.
C39_Witness ==
    /\ lastCall.op = "open" /\ lastCall.rewrote /\ lastCall.result = 0
    /\ Len(filters) = 2
    /\ {<<1, 1>>, <<1, 2>>, <<2, 2>>} \subseteq filtered_emails

\* C35: when a full sync has emitted complete, every UID the mailbox held
\* when the sync searched it is in the store for that account.
C35_CompleteMirrors ==
    \A i \in Slots :
       (task[i].kind = "all" /\ "complete" \in Range(events[i])) =>
          task[i].mailbox \subseteq StoredUids(task[i].email)

\* The same for the syncs all of whose upserts and cursor writes succeeded.
C35_WithoutStorageErrors ==
    \A i \in Slots :
       (/\ task[i].kind = "all" /\ "complete" \in Range(events[i])
        /\ \A k \in 1..Len(task[i].log) :
              task[i].log[k].upsert_ok /\ task[i].log[k].cursor_ok) =>
          task[i].mailbox \subseteq StoredUids(task[i].email)

\* The pairs (message, filter) of an account whose filter matches the subject
\* and the sender the message has now.
CurrentMatches(a) ==
    BatchMatches(SortedRows(AccountEmails(emails, a)), compile_filters(filters))

\* C36: when the backfill of an account is caught up (refresh_filtered_emails
\* returned 0), the filtered_emails rows of the account are exactly the pairs
\* (message, filter) whose filter matches the message's current subject and
\* sender.
C36_RowsAreCurrentMatches ==
    \A a \in Accounts :
       (lastCall.op = "refresh" /\ lastCall.account = a /\ lastCall.result = 0) =>
          FilteredOf(filtered_emails, emails, a) = CurrentMatches(a)

\* C37: when a mark-read of a stored message has completed, on the server and
\* in the store, while a sync held flags of that message fetched before, the
\* message is still read in the store after that sync has finished.
C37_ReadFlagKept ==
    (lastCall.op = "mark_as_read" /\ lastCall.result >= 0) =>
       \A i \in lastCall.stale :
          task[i].pc \in {"joined", "releasing", "done"} =>
             \A r \in AccountEmails(emails, lastCall.account) :
                r.uid \in lastCall.uids => r.is_read

====
